---------------------------- MODULE Spec2Model ----------------------------
(***************************************************************************)
(* Model of the memory subsystem of kodegen-candle-agent:                  *)
(*   - CoordinatorPool (src/memory/core/manager/pool.rs)                   *)
(*   - MemoryCoordinator::from_library (coordinator/lifecycle.rs)          *)
(*   - MemorizeSessionManager and its sessions (tools/memorize_manager.rs) *)
(*   - RecallTool::execute (tools/recall.rs)                               *)
(* Every `.await` on a lock, on the database or on the embedder is a step  *)
(* boundary: two tasks may interleave exactly there.                       *)
(***************************************************************************)
EXTENDS Integers, FiniteSets, Sequences, TLC

\* ------------------------------------------------------------------ bounds
MaxSessions == 2
MaxRecalls == 1
MaxShutdowns == 1

SessionIds == 1..MaxSessions
RecallIds == (MaxSessions + 1)..(MaxSessions + MaxRecalls)
Procs == SessionIds \cup RecallIds
CoordIds == 1..(MaxSessions + MaxRecalls)

Libraries == {"libA", "libB"}
\* names from_library rejects, and a dotted name it accepts
InvalidNames == {"", "a/b", "a\\b", ".."}
LibraryNames == Libraries \cup InvalidNames \cup {"a.b"}

\* the characters of each library name of the model
NameChars(L) ==
  CASE L = "libA" -> <<"l", "i", "b", "A">>
    [] L = "libB" -> <<"l", "i", "b", "B">>
    [] L = "" -> <<>>
    [] L = "a/b" -> <<"a", "/", "b">>
    [] L = "a\\b" -> <<"a", "\\", "b">>
    [] L = ".." -> <<".", ".">>
    [] L = "a.b" -> <<"a", ".", "b">>

\* mutant: only the path separators are rejected
ValidLibraryName_SeparatorsOnly(L) ==
  LET cs == NameChars(L)
  IN /\ ~(\E i \in 1..Len(cs) : cs[i] = "/")
     /\ ~(\E i \in 1..Len(cs) : cs[i] = "\\")

\* lifecycle.rs:180-188  the validation of from_library
ValidLibraryName(L) ==
  LET cs == NameChars(L)
  IN /\ ~(\E i \in 1..Len(cs) : cs[i] = "/")
     /\ ~(\E i \in 1..Len(cs) : cs[i] = "\\")
     /\ ~(\E i \in 1..(Len(cs) - 1) : cs[i] = "." /\ cs[i + 1] = ".")
     /\ Len(cs) > 0
Contents == {"hello", "world"}

\* limit of a recall call: the default, and the boundary value 0
DefaultLimit == 10
RecallLimits == {0, DefaultLimit}

NoCoord == 0
\* the database of an instance that was not built yet (not a library name)
NoLibrary == "<none>"
NoProc == 0

VARIABLES
  pc,            \* position of each task (memorize background task or recall call)
  role,          \* "none" | "memorize" | "recall"
  lib,           \* library_name argument of the task's get_coordinator call
  limit,         \* limit argument of a recall call
  held,          \* Arc<MemoryCoordinator> the task currently owns (NoCoord = none)
  got,           \* instance returned by the task's get_coordinator (history)
  retEpoch,      \* number of shutdown_all calls before that return (history)
  err,           \* error the task's last failed call returned ("" = none)
  coordinators,  \* CoordinatorPool.coordinators: library -> instance
  init_locks,    \* CoordinatorPool.init_locks: libraries that have a mutex
  guard,         \* holder of each library's init mutex (NoProc = free)
  coordDb,       \* instance -> library whose database it is connected to
  nextCoord,     \* next fresh instance id
  dbFiles,       \* libraries whose {library}.db exists on disk
  fs,            \* the rest of the file system: the two base directories of
                 \* the process, the directories that exist, foreign entries
  initRuns,      \* library -> number of SurrealDBMemoryManager::initialize runs
  fails,         \* library -> number of failed constructions (history)
  shut,          \* instances on which shutdown_workers was called
  workers,       \* <<instance, worker>>: background tasks still running
  entangled,     \* the entanglement tables on disk: the edges stored in each
                 \* library, and the libraries whose edge query fails
  quantum_state, \* instance -> QuantumState.entanglement_links it was built with
  schema_version,\* library -> schema version recorded in its database
  shutdowns      \* number of shutdown_all calls so far

graphVars == <<entangled, quantum_state, schema_version>>
poolVars == <<coordinators, init_locks, guard, coordDb, nextCoord, dbFiles, fs,
              initRuns, fails, shut, workers, graphVars, shutdowns>>
procVars == <<pc, role, lib, limit, held, got, retEpoch, err>>

\* ------------------------------------------------------ the file system
\* a path is the sequence of its components
NoPath == <<>>
ConfigHome == <<"~", ".config">>
DataHome == <<"~", ".local", "share", "kodegen">>

\* what dirs::config_dir() and KodegenConfig::data_dir() may answer in one
\* process: nothing (no home directory is known), or a directory
Envs ==
  [config_dir : {NoPath, ConfigHome},
   data_dir : {NoPath, ConfigHome \o <<"kodegen">>, DataHome}]

\* lifecycle.rs:191-201  the parent of db_path, which create_dir_all creates
LibraryDirOf(env) ==
  (IF env.config_dir = NoPath THEN <<".">> ELSE env.config_dir)
     \o <<"kodegen">> \o <<"memory">>

LibraryDir == LibraryDirOf(fs)

\* pool.rs:188-190  the directory list_libraries scans
MemoryDirOf(env) ==
  (IF env.data_dir = NoPath THEN <<".">> ELSE env.data_dir) \o <<"memory">>

MemoryDir == MemoryDirOf(fs)

\* lifecycle.rs:195  format!("{}.db", library_name)
FileName(L) == NameChars(L) \o <<".", "d", "b">>

\* a file of the memory directory that is no library database
NotesTxt == <<"n", ".", "t", "x", "t">>

\* the names of the entries of directory d
DirEntries(d) ==
  (IF d = LibraryDir THEN {FileName(L) : L \in dbFiles} ELSE {})
    \cup {o.name : o \in {x \in fs.other : x.dir = d}}

InitFs(env, other) ==
  fs = [config_dir |-> env.config_dir, data_dir |-> env.data_dir,
        dirs |-> {o.dir : o \in other}, other |-> other]

\* importance is kept in hundredths: 100 is 1.0
FullImportance == 100
\* the decayed importance used by tests/test_duplicate_content_hash.rs (0.3)
DecayedImportance == 30

\* unix_timestamp_now() keeps whole seconds; the clock of the model is finer
TicksPerSec == 2
MaxReaders == 1
ReaderIds == 1..MaxReaders
MemoryIds == 1..MaxSessions
NoMemory == 0

\* content inputs: two literal texts and one existing but empty directory
ContentInputs == Contents \cup {"empty_dir"}

VARIABLES
  rows,           \* library -> rows of the memory table of {library}.db
  nextId,         \* next fresh memory id (uuid)
  results,        \* recall task -> ids of the memories its search returned
  memories,       \* recall task -> the "memories" array of its response
  batch,          \* arguments and model response of the last evaluate_batch
  scored,         \* what that evaluate_batch returned
  lpc,            \* position of the list_libraries call
  lseen,          \* directory entries next_entry() has yielded so far
  libraries,      \* the vector list_libraries collects the stems in
  listed,         \* what the last list_libraries call returned
  lres,           \* "ok" / "err": how the last call returned ("" = never)
  lcalls,         \* number of list_libraries calls that returned
  lhist,          \* history: the entries of the memory directory and the
                  \* libraries built when the running call began, and the
                  \* entries at the end of the previous call with its result
  sessions,       \* MemorizeSessionManager.sessions (registered session ids)
  content_input,  \* MemorizeSession.content_input
  status,         \* MemorizeSession.status
  memory_id,      \* MemorizeSession.memory_id (NoMemory = None)
  error,          \* MemorizeSession.error ("" = None)
  stage,          \* MemorizeSession.progress.stage
  last_read_time, \* MemorizeSession.last_read_time
  created,        \* id of the row add_memory returned to the task
  resolved,       \* what resolve_content returned to the task
  rpc,            \* position of each get_status call
  rsid,           \* session id the call asks for
  resp,           \* MemorizeStatusResponse being built / returned
  seenAtStart,    \* terminal status already returned for rsid when the call began
  lastSeen,       \* session -> last terminal status any get_status returned
  gcpc,           \* position of cleanup_sessions
  gcNow,          \* `now` captured by cleanup_sessions
  gcTodo,         \* sessions the iteration has not visited yet
  gcRemove,       \* to_remove
  now,            \* the wall clock, in ticks of 1/TicksPerSec second
  cancelled,      \* the operator-level cancellation was signalled
  wall            \* history: clock readings (ticks) of the last touch of each
                  \* session, of its terminal status write and of the start of the
                  \* GC run, and the sessions some get_status has read

storeVars == <<rows, nextId>>
\* what the tools returned to their callers
listVars == <<lpc, lseen, libraries, listed, lres, lcalls, lhist>>
evalVars == <<batch, scored>>
outVars == <<results, memories, listVars, evalVars>>
sessVars == <<sessions, content_input, status, memory_id, error, stage,
              last_read_time, created, resolved, wall>>
readVars == <<rpc, rsid, resp, seenAtStart, lastSeen>>
gcVars == <<gcpc, gcNow, gcTodo, gcRemove>>
vars == <<procVars, poolVars, storeVars, outVars, sessVars, readVars, gcVars,
          now, cancelled>>

\* memorize_manager.rs:32-37  SystemTime::now() ... d.as_secs()
unix_timestamp_now == now \div TicksPerSec

\* ------------------------------------------------ continuations of a call
\* Where a task continues when get_coordinator returns Ok / Err.
\* memorize_manager.rs:284-326, recall.rs:46-48
AfterGetOk(p) == IF role[p] = "memorize" THEN "t_storing" ELSE "rc_search"
AfterGetErr(p) == IF role[p] = "memorize" THEN "f_status" ELSE "rc_err"

\* domain::memory::serialization::content_hash: a 64-bit hash of the text
ContentHash(c) == IF c = "hello" THEN 11 ELSE IF c = "world" THEN 22 ELSE 33

InFromLibrary(p) == pc[p] \in {"fl_connect", "fl_initialize", "fl_new", "fl_edges"}

\* ------------------------------------------------ the entanglement tables
\* no library has an edge
NoEdges == [L \in LibraryNames |-> {}]

\* the tables as the process finds them: the stored edges, and the libraries
\* for which load_all_entanglement_edges returns Err
InitGraph(edges, fault) == entangled = [edges |-> edges, fault |-> fault]

\* ------------------------------------------------ the schema migrations
\* target versions of the built-in migrations
BuiltinMigrations == {1, 2}

\* version of a database no migration was applied to
NoSchema == 0

\* the migrations migrate() has to apply to a database at version v
PendingMigrations(v) == {m \in BuiltinMigrations : m > v}

InitSchema(versions) == schema_version = versions

\* ------------------------------------------------------ evaluate_batch
\* no evaluate_batch was called yet
NoBatch == [memories |-> <<>>, response |-> "<none>"]
NoScores == [ok |-> FALSE, pairs |-> <<>>, error |-> ""]

\* ------------------------------------------------------------ Init
InitPool ==
  /\ coordinators = [L \in LibraryNames |-> NoCoord]
  /\ init_locks = {}
  /\ guard = [L \in LibraryNames |-> NoProc]
  /\ coordDb = [k \in CoordIds |-> NoLibrary]
  /\ nextCoord = 1
  /\ dbFiles = {}
  /\ initRuns = [L \in LibraryNames |-> 0]
  /\ fails = [L \in LibraryNames |-> 0]
  /\ shut = {}
  /\ workers = {}
  /\ quantum_state = [k \in CoordIds |-> {}]
  /\ shutdowns = 0

InitProcs ==
  /\ pc = [p \in Procs |-> "idle"]
  /\ role = [p \in Procs |-> "none"]
  /\ lib = [p \in Procs |-> "libA"]
  /\ limit = [p \in Procs |-> 0]
  /\ held = [p \in Procs |-> NoCoord]
  /\ got = [p \in Procs |-> NoCoord]
  /\ retEpoch = [p \in Procs |-> 0]
  /\ err = [p \in Procs |-> ""]

InitStore ==
  /\ rows = [L \in LibraryNames |-> {}]
  /\ nextId = 1
  /\ results = [p \in Procs |-> {}]
  /\ memories = [p \in Procs |-> <<>>]
  /\ batch = NoBatch
  /\ scored = NoScores
  /\ lpc = "idle"
  /\ lseen = {}
  /\ libraries = <<>>
  /\ listed = <<>>
  /\ lres = ""
  /\ lcalls = 0
  /\ lhist = [begin |-> {}, built |-> {},
              prev |-> [valid |-> FALSE, entries |-> {}, result |-> <<>>]]

NotResolved == [ok |-> FALSE, via |-> "", data |-> ""]

NoResp == [status |-> "", memory_id |-> NoMemory, error |-> "", stage |-> ""]

InitSessions ==
  /\ sessions = {}
  /\ content_input = [s \in SessionIds |-> "hello"]
  /\ status = [s \in SessionIds |-> "IN_PROGRESS"]
  /\ memory_id = [s \in SessionIds |-> NoMemory]
  /\ error = [s \in SessionIds |-> ""]
  /\ stage = [s \in SessionIds |-> "Initializing"]
  /\ last_read_time = [s \in SessionIds |-> 0]
  /\ created = [s \in SessionIds |-> NoMemory]
  /\ resolved = [s \in SessionIds |-> NotResolved]
  /\ rpc = [r \in ReaderIds |-> "idle"]
  /\ rsid = [r \in ReaderIds |-> 1]
  /\ resp = [r \in ReaderIds |-> NoResp]
  /\ seenAtStart = [r \in ReaderIds |-> ""]
  /\ lastSeen = [s \in SessionIds |-> ""]
  /\ gcpc = "idle"
  /\ gcNow = 0
  /\ gcTodo = {}
  /\ gcRemove = {}
  /\ now = 0
  /\ cancelled = FALSE
  /\ wall = [touched |-> [s \in SessionIds |-> 0], read |-> {},
             terminal |-> [s \in SessionIds |-> 0], gc |-> 0]

\* a process that knows its home directory, on an empty disk
DefaultEnv == [config_dir |-> ConfigHome, data_dir |-> DataHome]

Init ==
  /\ InitPool /\ InitProcs /\ InitStore /\ InitSessions /\ InitFs(DefaultEnv, {})
  /\ InitGraph(NoEdges, {})
  /\ InitSchema([L \in LibraryNames |-> NoSchema])

\* ------------------------------------------- CoordinatorPool::get_coordinator
\* mutant: the map lock is taken before from_library and kept until the insert
CoordinatorsLockHolders_WhileBuilding == {p \in Procs : InFromLibrary(p)}

\* pool.rs:92-98, 129-139, 147-155, 254  every guard on `coordinators` is
\* dropped inside the block that takes it, before the next await: no task
\* holds the map lock from one step to the next
CoordinatorsLockHolders == {}

\* pool.rs:107-118  the same for the guards on `init_locks`
InitLocksLockHolders == {}

\* Ok(coordinator.clone()) out of the map
ReturnCached(p, next) ==
  /\ held' = [held EXCEPT ![p] = coordinators[lib[p]]]
  /\ got' = [got EXCEPT ![p] = coordinators[lib[p]]]
  /\ retEpoch' = [retEpoch EXCEPT ![p] = shutdowns]
  /\ pc' = [pc EXCEPT ![p] = next]

\* pool.rs:91-97  fast path under the map read lock
GetCoordFast(p) ==
  /\ pc[p] = "gc_fast"
  /\ CoordinatorsLockHolders \ {p} = {}
  /\ IF coordinators[lib[p]] # NoCoord
       THEN ReturnCached(p, AfterGetOk(p))
       ELSE /\ pc' = [pc EXCEPT ![p] = "gc_locks_read"]
            /\ UNCHANGED <<held, got, retEpoch>>
  /\ UNCHANGED <<role, lib, limit, err, poolVars>>

\* pool.rs:105-109  look the init mutex up under the read lock
GetInitLockRead(p) ==
  /\ pc[p] = "gc_locks_read"
  /\ InitLocksLockHolders \ {p} = {}
  /\ pc' = [pc EXCEPT ![p] = IF lib[p] \in init_locks THEN "gc_lock"
                                                      ELSE "gc_locks_write"]
  /\ UNCHANGED <<role, lib, limit, held, got, retEpoch, err, poolVars>>

\* pool.rs:110-118  entry(..).or_insert_with(..) under the write lock
GetInitLockWrite(p) ==
  /\ pc[p] = "gc_locks_write"
  /\ InitLocksLockHolders \ {p} = {}
  /\ init_locks' = init_locks \cup {lib[p]}
  /\ pc' = [pc EXCEPT ![p] = "gc_lock"]
  /\ UNCHANGED <<role, lib, limit, held, got, retEpoch, err>>
  /\ UNCHANGED <<coordinators, guard, coordDb, nextCoord, dbFiles, fs, initRuns,
                 fails, shut, workers, graphVars, shutdowns>>

\* mutant: the init mutex never excludes anybody
MutexFree_AlwaysFree(L) == TRUE

\* pool.rs:124  init_lock.lock().await
MutexFree(L) == guard[L] = NoProc

AcquireInitLock(p) ==
  /\ pc[p] = "gc_lock"
  /\ MutexFree(lib[p])
  /\ guard' = [guard EXCEPT ![lib[p]] = p]
  /\ pc' = [pc EXCEPT ![p] = "gc_recheck"]
  /\ UNCHANGED <<role, lib, limit, held, got, retEpoch, err>>
  /\ UNCHANGED <<coordinators, init_locks, coordDb, nextCoord, dbFiles, fs,
                 initRuns, fails, shut, workers, graphVars, shutdowns>>

\* mutant: no second look at the map after the mutex was acquired
RecheckCache_NoRecheck(p) ==
  /\ pc[p] = "gc_recheck"
  /\ CoordinatorsLockHolders \ {p} = {}
  /\ pc' = [pc EXCEPT ![p] = "fl_connect"]
  /\ UNCHANGED <<role, lib, limit, err, held, got, retEpoch, guard>>
  /\ UNCHANGED <<coordinators, init_locks, coordDb, nextCoord, dbFiles, fs,
                 initRuns, fails, shut, workers, graphVars, shutdowns>>

\* pool.rs:128-137  second look at the map, now holding the init mutex
RecheckCache(p) ==
  /\ pc[p] = "gc_recheck"
  /\ CoordinatorsLockHolders \ {p} = {}
  /\ IF coordinators[lib[p]] # NoCoord
       THEN /\ ReturnCached(p, AfterGetOk(p))
            /\ guard' = [guard EXCEPT ![lib[p]] = NoProc]
       ELSE /\ pc' = [pc EXCEPT ![p] = "fl_connect"]
            /\ UNCHANGED <<held, got, retEpoch, guard>>
  /\ UNCHANGED <<role, lib, limit, err>>
  /\ UNCHANGED <<coordinators, init_locks, coordDb, nextCoord, dbFiles, fs,
                 initRuns, fails, shut, workers, graphVars, shutdowns>>

\* mutant: the error path leaves the init mutex locked
ConstructionFailed_KeepsGuard(p) ==
  /\ guard' = guard
  /\ fails' = [fails EXCEPT ![lib[p]] = @ + 1]
  /\ err' = [err EXCEPT ![p] = "Failed to get coordinator"]
  /\ pc' = [pc EXCEPT ![p] = AfterGetErr(p)]

\* `?` at pool.rs:143: the error is returned, _guard is dropped, nothing cached
ConstructionFailed(p) ==
  /\ guard' = [guard EXCEPT ![lib[p]] = NoProc]
  /\ fails' = [fails EXCEPT ![lib[p]] = @ + 1]
  /\ err' = [err EXCEPT ![p] = "Failed to get coordinator"]
  /\ pc' = [pc EXCEPT ![p] = AfterGetErr(p)]

\* lifecycle.rs:180-188  an invalid name is rejected before any path is built
FromLibraryInvalid(p) ==
  /\ pc[p] = "fl_connect"
  /\ ~ValidLibraryName(lib[p])
  /\ guard' = [guard EXCEPT ![lib[p]] = NoProc]
  /\ fails' = [fails EXCEPT ![lib[p]] = @ + 1]
  /\ err' = [err EXCEPT ![p] = "InvalidInput"]
  /\ pc' = [pc EXCEPT ![p] = AfterGetErr(p)]
  /\ UNCHANGED <<role, lib, limit, held, got, retEpoch>>
  /\ UNCHANGED <<coordinators, init_locks, coordDb, nextCoord, dbFiles, fs,
                 initRuns, shut, workers, graphVars, shutdowns>>

\* lifecycle.rs:190-216  create the directory, connect to {library}.db;
\* create_dir_all may fail, and connect may fail after it succeeded
FromLibraryConnect(p) ==
  /\ pc[p] = "fl_connect"
  /\ ValidLibraryName(lib[p])
  /\ \/ /\ fs' = [fs EXCEPT !.dirs = @ \cup {LibraryDir}]
        /\ dbFiles' = dbFiles \cup {lib[p]}
        /\ pc' = [pc EXCEPT ![p] = "fl_initialize"]
        /\ UNCHANGED <<guard, fails, err>>
     \/ /\ ConstructionFailed(p)
        /\ UNCHANGED <<dbFiles, fs>>
     \/ /\ ConstructionFailed(p)
        /\ fs' = [fs EXCEPT !.dirs = @ \cup {LibraryDir}]
        /\ UNCHANGED dbFiles
  /\ UNCHANGED <<role, lib, limit, held, got, retEpoch>>
  /\ UNCHANGED <<coordinators, init_locks, coordDb, nextCoord, initRuns, shut,
                 workers, graphVars,
                 shutdowns>>

\* lifecycle.rs:222  surreal_manager.initialize().await?
FromLibraryInitialize(p) ==
  /\ pc[p] = "fl_initialize"
  /\ initRuns' = [initRuns EXCEPT ![lib[p]] = @ + 1]
  /\ \/ /\ pc' = [pc EXCEPT ![p] = "fl_new"]
        /\ UNCHANGED <<guard, fails, err>>
     \/ ConstructionFailed(p)
  /\ UNCHANGED <<role, lib, limit, held, got, retEpoch>>
  /\ UNCHANGED <<coordinators, init_locks, coordDb, nextCoord, dbFiles, fs, shut,
                 workers, graphVars,
                 shutdowns>>

\* lifecycle.rs:65-80, 145-148  the tasks MemoryCoordinator::new spawns: two
\* cognitive workers and the decay worker
WorkerIds == {"cognitive0", "cognitive1", "decay"}

\* lifecycle.rs:53-59  ModelCommitteeEvaluator::new().await ... ?  the only
\* place MemoryCoordinator::new returns an error
FromLibraryNew(p) ==
  /\ pc[p] = "fl_new"
  /\ \/ /\ pc' = [pc EXCEPT ![p] = "fl_edges"]
        /\ UNCHANGED <<guard, fails, err>>
     \/ ConstructionFailed(p)
  /\ UNCHANGED <<role, lib, limit, held, got, retEpoch>>
  /\ UNCHANGED <<coordinators, init_locks, coordDb, nextCoord, dbFiles, fs,
                 initRuns, shut, workers, graphVars, shutdowns>>

\* mutant: a failed load of the edges fails the construction
EntanglementLinks_Propagates(L) ==
  IF L \in entangled.fault THEN [ok |-> FALSE, links |-> {}]
  ELSE [ok |-> TRUE, links |-> entangled.edges[L]]

\* lifecycle.rs:88-104  match load_all_entanglement_edges().await: Ok(links)
\* gives the links, Err(e) is logged and gives Vec::new()
EntanglementLinks(L) ==
  IF L \in entangled.fault THEN [ok |-> TRUE, links |-> {}]
  ELSE [ok |-> TRUE, links |-> entangled.edges[L]]

\* lifecycle.rs:86-151 and pool.rs:144  the graph is loaded, the coordinator
\* is built, its workers are running and it is returned to get_coordinator
FromLibraryLoadEdges(p) ==
  /\ pc[p] = "fl_edges"
  /\ \/ /\ EntanglementLinks(lib[p]).ok
        /\ nextCoord \in CoordIds
        /\ coordDb' = [coordDb EXCEPT ![nextCoord] = lib[p]]
        /\ quantum_state' = [quantum_state EXCEPT ![nextCoord] =
                               EntanglementLinks(lib[p]).links]
        /\ nextCoord' = nextCoord + 1
        /\ held' = [held EXCEPT ![p] = nextCoord]
        /\ workers' = workers \cup {<<nextCoord, w>> : w \in WorkerIds}
        /\ pc' = [pc EXCEPT ![p] = "gc_insert"]
        /\ UNCHANGED <<guard, fails, err>>
     \/ /\ ~EntanglementLinks(lib[p]).ok
        /\ ConstructionFailed(p)
        /\ UNCHANGED <<coordDb, quantum_state, nextCoord, held, workers>>
  /\ UNCHANGED <<role, lib, limit, got, retEpoch>>
  /\ UNCHANGED <<coordinators, init_locks, dbFiles, fs, initRuns, shut,
                 shutdowns, entangled, schema_version>>

\* mutant: every coordinator is cached under one fixed key
CacheKey_Constant(p) == "libA"

\* pool.rs:149  the key the new coordinator is cached under
CacheKey(p) == lib[p]

\* mutant: the init mutex is still locked when get_coordinator returns
InsertCoordinator_KeepsGuard(p) ==
  /\ pc[p] = "gc_insert"
  /\ CoordinatorsLockHolders \ {p} = {}
  /\ coordinators' = [coordinators EXCEPT ![CacheKey(p)] = held[p]]
  /\ guard' = guard
  /\ got' = [got EXCEPT ![p] = held[p]]
  /\ retEpoch' = [retEpoch EXCEPT ![p] = shutdowns]
  /\ pc' = [pc EXCEPT ![p] = AfterGetOk(p)]
  /\ UNCHANGED <<role, lib, limit, held, err>>
  /\ UNCHANGED <<init_locks, coordDb, nextCoord, dbFiles, fs, initRuns, fails,
                 shut, workers, graphVars, shutdowns>>

\* pool.rs:147-158  insert under the map write lock, drop _guard, return
InsertCoordinator(p) ==
  /\ pc[p] = "gc_insert"
  /\ CoordinatorsLockHolders \ {p} = {}
  /\ coordinators' = [coordinators EXCEPT ![CacheKey(p)] = held[p]]
  /\ guard' = [guard EXCEPT ![lib[p]] = NoProc]
  /\ got' = [got EXCEPT ![p] = held[p]]
  /\ retEpoch' = [retEpoch EXCEPT ![p] = shutdowns]
  /\ pc' = [pc EXCEPT ![p] = AfterGetOk(p)]
  /\ UNCHANGED <<role, lib, limit, held, err>>
  /\ UNCHANGED <<init_locks, coordDb, nextCoord, dbFiles, fs, initRuns, fails,
                 shut, workers, graphVars, shutdowns>>

\* pool.rs:250-275  drain the map; shutdown_workers only where the pool held
\* the last reference (Arc::try_unwrap succeeds)
\* mutant: shutdown_workers is called whoever else holds the coordinator
SoleOwner_Always(k) == TRUE

\* pool.rs:259  Arc::try_unwrap(coordinator) succeeds
SoleOwner(k) == \A p \in Procs : held[p] # k

ShutdownAll ==
  /\ shutdowns < MaxShutdowns
  /\ CoordinatorsLockHolders = {}
  /\ shut' = shut \cup {coordinators[L] : L \in
                 {M \in LibraryNames : coordinators[M] # NoCoord
                                    /\ SoleOwner(coordinators[M])}}
  /\ coordinators' = [L \in LibraryNames |-> NoCoord]
  /\ shutdowns' = shutdowns + 1
  /\ UNCHANGED <<procVars, init_locks, guard, coordDb, nextCoord, dbFiles, fs,
                 initRuns, fails, workers, graphVars>>

\* strong references to coordinator k: the pool map and the tasks
RefCount(k) ==
  Cardinality({L \in LibraryNames : coordinators[L] = k})
    + Cardinality({p \in Procs : held[p] = k})

\* ------------------------------------------------ the entanglement graph
RECURSIVE SumStrength(_)
SumStrength(links) ==
  IF links = {} THEN 0
  ELSE LET l == CHOOSE x \in links : TRUE
       IN l.strength + SumStrength(links \ {l})

\* boost of candidate c within the candidate set C, in percent: the summed
\* strength of its edges to other candidates, capped at 1.0
BoostOf(links, c, C) ==
  LET near == {l \in links : \/ l.a = c /\ l.b \in C
                             \/ l.b = c /\ l.a \in C}
      sum == SumStrength(near)
  IN IF sum > 100 THEN 100 ELSE sum

EntanglementBoost(k, c, C) == BoostOf(quantum_state[k], c, C)

\* ------------------------------------------------ the background workers
\* lifecycle.rs:114, 132, 140, 151  Senders of the decay shutdown channel: one
\* in every clone handed out (the pool and the tasks share one clone), and the
\* original in the coordinator whose Arc the decay worker owns
ShutdownSenders(k) ==
  (IF RefCount(k) > 0 THEN 1 ELSE 0)
    + (IF <<k, "decay">> \in workers THEN 1 ELSE 0)

\* lifecycle.rs:60, 67, 123  owners of the cognitive queue: the coordinators
\* above and each cognitive worker
QueueOwners(k) ==
  ShutdownSenders(k)
    + Cardinality({w \in WorkerIds \ {"decay"} : <<k, w>> \in workers})

\* the decay worker leaves its loop on the shutdown signal or when the
\* channel is closed; a cognitive worker leaves when the queue is closed
\* (lifecycle.rs:275-277)
WorkerMayExit(k, w) ==
  IF w = "decay" THEN k \in shut \/ ShutdownSenders(k) = 0
                 ELSE QueueOwners(k) = 0

WorkerExit(k, w) ==
  /\ <<k, w>> \in workers
  /\ WorkerMayExit(k, w)
  /\ workers' = workers \ {<<k, w>>}
  /\ UNCHANGED <<procVars, coordinators, init_locks, guard, coordDb, nextCoord,
                 dbFiles, fs, initRuns, fails, shut, shutdowns, graphVars,
                 storeVars,
                 outVars, sessVars, readVars, gcVars, now, cancelled>>

\* lifecycle.rs:68, 140  the database stays open while a coordinator or a
\* worker owns the Arc<SurrealDBMemoryManager>
DbOpen(k) == RefCount(k) > 0 \/ \E w \in WorkerIds : <<k, w>> \in workers

\* pool.rs:280-282
pool_size == Cardinality({L \in LibraryNames : coordinators[L] # NoCoord})

GetCoordinatorStep(p) ==
  \/ GetCoordFast(p)
  \/ GetInitLockRead(p)
  \/ GetInitLockWrite(p)
  \/ AcquireInitLock(p)
  \/ RecheckCache(p)
  \/ FromLibraryInvalid(p)
  \/ FromLibraryConnect(p)
  \/ FromLibraryInitialize(p)
  \/ FromLibraryNew(p)
  \/ FromLibraryLoadEdges(p)
  \/ InsertCoordinator(p)

nonPoolVars == <<storeVars, outVars, sessVars, readVars, gcVars, now, cancelled>>

GetCoordinator(p) == GetCoordinatorStep(p) /\ UNCHANGED nonPoolVars

Shutdown == ShutdownAll /\ UNCHANGED nonPoolVars

\* --------------------------------------------------- the library database
\* the database a coordinator instance reads and writes
DbOf(k) == coordDb[k]

\* mutant: the content_hash index is not UNIQUE
UniqueViolation_NotUnique(L, h) == FALSE

\* manager.rs:145-155  DEFINE INDEX memory_content_hash_uniq ... UNIQUE:
\* a CREATE whose content_hash is already indexed is rejected
UniqueViolation(L, h) == \E r \in rows[L] : r.hash = h

\* embedding generation + CREATE memory CONTENT {..} of create_memory
AddMemoryCreate(s) ==
  /\ pc[s] = "am_create"
  /\ LET L == DbOf(held[s])
         h == ContentHash(content_input[s])
     IN \/ /\ err' = [err EXCEPT ![s] = "Failed to store memory"]
           /\ pc' = [pc EXCEPT ![s] = "f_status"]
           /\ UNCHANGED <<rows, nextId, created>>
        \/ /\ UniqueViolation(L, h)
           /\ pc' = [pc EXCEPT ![s] = "am_update"]
           /\ UNCHANGED <<rows, nextId, created, err>>
        \/ /\ ~UniqueViolation(L, h)
           /\ nextId \in MemoryIds
           /\ rows' = [rows EXCEPT ![L] = @ \cup
                 {[id |-> nextId, hash |-> h, importance |-> FullImportance]}]
           /\ nextId' = nextId + 1
           /\ created' = [created EXCEPT ![s] = nextId]
           /\ pc' = [pc EXCEPT ![s] = "c_status"]
           /\ UNCHANGED err
  /\ UNCHANGED <<role, lib, limit, held, got, retEpoch, poolVars, outVars>>
  /\ UNCHANGED <<sessions, content_input, resolved, status, memory_id, error, stage,
                 last_read_time, wall>>
  /\ UNCHANGED <<readVars, gcVars, now, cancelled>>

\* mutant: the duplicate is resolved without touching the importance
AddMemoryUpdate_KeepsImportance(s) ==
  /\ pc[s] = "am_update"
  /\ LET L == DbOf(held[s])
         h == ContentHash(content_input[s])
         old == CHOOSE r \in rows[L] : r.hash = h
     IN created' = [created EXCEPT ![s] = old.id]
  /\ pc' = [pc EXCEPT ![s] = "c_status"]
  /\ UNCHANGED <<role, lib, limit, held, got, retEpoch, err, poolVars, rows, nextId,
                 outVars>>
  /\ UNCHANGED <<sessions, content_input, resolved, status, memory_id, error, stage,
                 last_read_time, wall>>
  /\ UNCHANGED <<readVars, gcVars, now, cancelled>>

\* the duplicate is resolved as an update of the row that owns the hash:
\* importance back to 1.0, the original id is kept and returned
AddMemoryUpdate(s) ==
  /\ pc[s] = "am_update"
  /\ LET L == DbOf(held[s])
         h == ContentHash(content_input[s])
         old == CHOOSE r \in rows[L] : r.hash = h
     IN /\ rows' = [rows EXCEPT ![L] = (@ \ {old}) \cup
                       {[old EXCEPT !.importance = FullImportance]}]
        /\ created' = [created EXCEPT ![s] = old.id]
  /\ pc' = [pc EXCEPT ![s] = "c_status"]
  /\ UNCHANGED <<role, lib, limit, held, got, retEpoch, err, poolVars, nextId, outVars>>
  /\ UNCHANGED <<sessions, content_input, resolved, status, memory_id, error, stage,
                 last_read_time, wall>>
  /\ UNCHANGED <<readVars, gcVars, now, cancelled>>

\* the decay worker of a live coordinator lowers the importance of a row
DecayWorkerAlive(L) ==
  \E k \in CoordIds :
     coordDb[k] = L /\ k \notin shut /\ <<k, "decay">> \in workers

Decay(L) ==
  /\ DecayWorkerAlive(L)
  /\ \E r \in rows[L] :
       /\ r.importance > DecayedImportance
       /\ rows' = [rows EXCEPT ![L] = (@ \ {r}) \cup
                      {[r EXCEPT !.importance = DecayedImportance]}]
  /\ UNCHANGED <<procVars, poolVars, nextId, outVars, sessVars, readVars,
                 gcVars, now, cancelled>>

\* ------------------------------------------------------ RecallTool::execute
\* recall.rs:42-48
StartRecall(p, L, n) ==
  /\ pc[p] = "idle"
  /\ role[p] = "none"
  /\ role' = [role EXCEPT ![p] = "recall"]
  /\ lib' = [lib EXCEPT ![p] = L]
  /\ limit' = [limit EXCEPT ![p] = n]
  /\ pc' = [pc EXCEPT ![p] = "gc_fast"]
  /\ UNCHANGED <<held, got, retEpoch, err, poolVars, nonPoolVars>>

\* raw cosine similarities a search may report, in hundredths
Similarities == {50, 100}

Min(a, b) == IF a <= b THEN a ELSE b

\* a memory as search_memories returns it: the row's id and importance and
\* the similarity of the row to the query
Candidates(L) ==
  {[id |-> r.id, similarity |-> sim, importance |-> r.importance] :
     r \in rows[L], sim \in Similarities}

\* coordinator.search_memories(context, k, filter): at most k memories of
\* the library, no memory twice, by descending similarity x importance
SearchMemories(L, k) ==
  LET n == Min(k, Cardinality(rows[L]))
  IN {q \in UNION {[1..m -> Candidates(L)] : m \in 0..n} :
        /\ \A i, j \in 1..Len(q) : i # j => q[i].id # q[j].id
        /\ \A i \in 1..(Len(q) - 1) :
             q[i].similarity * q[i].importance >=
               q[i + 1].similarity * q[i + 1].importance}

\* mutant: the rank is the 0-based index of enumerate()
RecallMemory_ZeroBased(index, memory) ==
  [id |-> memory.id,
   similarity |-> memory.similarity,
   importance |-> memory.importance,
   score |-> memory.similarity * memory.importance,
   rank |-> index]

\* recall.rs:63-88  one element of "memories"; index is 0-based; the score
\* is in ten-thousandths
RecallMemory(index, memory) ==
  [id |-> memory.id,
   similarity |-> memory.similarity,
   importance |-> memory.importance,
   score |-> memory.similarity * memory.importance,
   rank |-> index + 1]

\* recall.rs:91  let count = memories.len()
RecallCount(p) == Len(memories[p])

\* recall.rs:54-91  search_memories on the coordinator that was returned,
\* then the response is built from its result
RecallSearch(p) ==
  /\ pc[p] = "rc_search"
  /\ \E q \in SearchMemories(DbOf(held[p]), limit[p]) :
       /\ results' = [results EXCEPT ![p] = {q[i].id : i \in 1..Len(q)}]
       /\ memories' = [memories EXCEPT ![p] =
                         [i \in 1..Len(q) |-> RecallMemory(i - 1, q[i])]]
  /\ held' = [held EXCEPT ![p] = NoCoord]
  /\ pc' = [pc EXCEPT ![p] = "rc_done"]
  /\ UNCHANGED <<role, lib, limit, got, retEpoch, err, poolVars, storeVars, sessVars,
                 readVars, gcVars, now, cancelled, listVars, evalVars>>

\* ------------------------------- ModelCommitteeEvaluator::evaluate_batch
\* the i-th character of a string
CharAt(str, i) == SubSeq(str, i, i)

DigitChars == {"0", "1", "2", "3", "4", "5", "6", "7", "8", "9"}

\* committee_evaluators.rs:145  the class [\d\.,\s] of the regex
ArrayChars == DigitChars \cup {".", ",", " "}

\* scores are kept in hundredths: 1.0 is 100
ScoreScale == 100

NoMatch == "<no match>"

\* committee_evaluators.rs:145-148  re.find(response): the leftmost match of
\* \[[\d\.,\s]+\], which ends at the first "]" after its "["
RegexFind(response) ==
  LET n == Len(response)
      EndOf(i) == {j \in (i + 2)..n :
                     /\ CharAt(response, j) = "]"
                     /\ \A m \in (i + 1)..(j - 1) :
                          CharAt(response, m) \in ArrayChars}
      starts == {i \in 1..n : CharAt(response, i) = "[" /\ EndOf(i) # {}}
  IN IF starts = {} THEN NoMatch
     ELSE LET i == CHOOSE a \in starts : \A b \in starts : a <= b
              j == CHOOSE a \in EndOf(i) : \A b \in EndOf(i) : a <= b
          IN SubSeq(response, i, j)

\* the pieces of str between its commas
RECURSIVE SplitCommas(_)
SplitCommas(str) ==
  LET commas == {i \in 1..Len(str) : CharAt(str, i) = ","}
  IN IF commas = {} THEN <<str>>
     ELSE LET i == CHOOSE a \in commas : \A b \in commas : a <= b
          IN <<SubSeq(str, 1, i - 1)>>
               \o SplitCommas(SubSeq(str, i + 1, Len(str)))

\* str without the whitespace at its ends
RECURSIVE TrimSpaces(_)
TrimSpaces(str) ==
  IF str = "" THEN ""
  ELSE IF CharAt(str, 1) = " " THEN TrimSpaces(SubSeq(str, 2, Len(str)))
  ELSE IF CharAt(str, Len(str)) = " "
         THEN TrimSpaces(SubSeq(str, 1, Len(str) - 1))
  ELSE str

DigitValue(c) ==
  CHOOSE d \in 0..9 : CharAt("0123456789", d + 1) = c

\* value of a string of digits
RECURSIVE DigitsValue(_)
DigitsValue(str) ==
  IF str = "" THEN 0
  ELSE 10 * DigitsValue(SubSeq(str, 1, Len(str) - 1))
         + DigitValue(CharAt(str, Len(str)))

AllDigits(str) ==
  str # "" /\ \A i \in 1..Len(str) : CharAt(str, i) \in DigitChars

\* a JSON number made of digits and dots: an integer part without a leading
\* zero, then optionally a dot and at least one digit
JsonNumber(tok) ==
  LET dots == {i \in 1..Len(tok) : CharAt(tok, i) = "."}
      d == IF dots = {} THEN Len(tok) + 1
           ELSE CHOOSE a \in dots : \A b \in dots : a <= b
      int == SubSeq(tok, 1, d - 1)
      frac == SubSeq(tok, d + 1, Len(tok))
      wellFormed ==
        /\ AllDigits(int)
        /\ Len(int) > 1 => CharAt(int, 1) # "0"
        /\ dots # {} => AllDigits(frac)
      \* the value in hundredths; further digits are below the scale
      hundredths ==
        IF dots = {} THEN 0
        ELSE IF Len(frac) = 1 THEN 10 * DigitsValue(frac)
        ELSE DigitsValue(SubSeq(frac, 1, 2))
  IN IF wellFormed
       THEN [ok |-> TRUE, value |-> ScoreScale * DigitsValue(int) + hundredths]
       ELSE [ok |-> FALSE, value |-> 0]

\* committee_evaluators.rs:150-151  serde_json::from_str::<Vec<f64>>(json_str)
JsonFloats(json_str) ==
  LET body == TrimSpaces(SubSeq(json_str, 2, Len(json_str) - 1))
      toks == SplitCommas(body)
      nums == [i \in 1..Len(toks) |-> JsonNumber(TrimSpaces(toks[i]))]
  IN IF body = "" THEN [ok |-> TRUE, scores |-> <<>>]
     ELSE IF \A i \in 1..Len(toks) : nums[i].ok
       THEN [ok |-> TRUE, scores |-> [i \in 1..Len(toks) |-> nums[i].value]]
     ELSE [ok |-> FALSE, scores |-> <<>>]

BatchErr(msg) == [ok |-> FALSE, scores |-> <<>>, error |-> msg]

\* mutant: the number of scores is not compared with the number of memories
ParseBatchScores_AnyCount(response, expected_count) ==
  LET json_str == RegexFind(response)
      parsed == JsonFloats(json_str)
  IN IF json_str = NoMatch THEN BatchErr("No score array found in response")
     ELSE IF ~parsed.ok THEN BatchErr("JSON parse error")
     ELSE IF \E i \in 1..Len(parsed.scores) :
               ~(parsed.scores[i] >= 0 /\ parsed.scores[i] <= ScoreScale)
       THEN BatchErr("Score out of range [0.0, 1.0]")
     ELSE [ok |-> TRUE, scores |-> parsed.scores, error |-> ""]

\* committee_evaluators.rs:141-179
ParseBatchScores(response, expected_count) ==
  LET json_str == RegexFind(response)
      parsed == JsonFloats(json_str)
  IN IF json_str = NoMatch THEN BatchErr("No score array found in response")
     ELSE IF ~parsed.ok THEN BatchErr("JSON parse error")
     ELSE IF Len(parsed.scores) # expected_count
       THEN BatchErr("Expected scores, got another number")
     ELSE IF \E i \in 1..Len(parsed.scores) :
               ~(parsed.scores[i] >= 0 /\ parsed.scores[i] <= ScoreScale)
       THEN BatchErr("Score out of range [0.0, 1.0]")
     ELSE [ok |-> TRUE, scores |-> parsed.scores, error |-> ""]

\* committee_evaluators.rs:45-95  the prompt is sent, the stream is collected
\* into `response`, the scores are parsed and zipped with the memory ids
EvaluateBatch(ms, response) ==
  /\ batch' = [memories |-> ms, response |-> response]
  /\ LET parsed == ParseBatchScores(response, Len(ms))
     IN scored' =
          IF ~parsed.ok
            THEN [ok |-> FALSE, pairs |-> <<>>, error |-> parsed.error]
            ELSE [ok |-> TRUE,
                  pairs |-> [i \in 1..Min(Len(ms), Len(parsed.scores)) |->
                               <<ms[i], parsed.scores[i]>>],
                  error |-> ""]
  /\ UNCHANGED <<procVars, poolVars, storeVars, results, memories, listVars,
                 sessVars, readVars, gcVars, now, cancelled>>

\* ------------------------------------------------ MemorizeSessionManager
ReadLockHolders ==
  {r \in ReaderIds : rpc[r] \in {"r_status", "r_memid", "r_error", "r_progress"}}

\* ---------------------------------------------------------- resolve_content
\* str::starts_with, str::contains, str::trim_start_matches
StartsWith(str, pre) ==
  Len(str) >= Len(pre) /\ SubSeq(str, 1, Len(pre)) = pre

StrContains(str, part) ==
  \E i \in 1..(Len(str) - Len(part) + 1) :
    SubSeq(str, i, i + Len(part) - 1) = part

RECURSIVE TrimStartMatches(_, _)
TrimStartMatches(str, pre) ==
  IF StartsWith(str, pre)
    THEN TrimStartMatches(SubSeq(str, Len(pre) + 1, Len(str)), pre)
    ELSE str

\* the content inputs resolve_content is followed on
ResolveInputs ==
  {"hello", "empty_dir", "docs", "notes.md", "/dev/null", "missing.md",
   "*.none", "*.md", "what?", "odd*name", "http://x.org/a",
   "https://github.com/u/r", "github.com/u/r", "github.com/u",
   "vendor/github.com/x", "locked.md"}

\* the disk resolve_content looks at: what Path::exists, is_dir and is_file
\* answer for the input
PathKind(input) ==
  CASE input \in {"empty_dir", "docs", "vendor/github.com/x"} -> "dir"
    [] input \in {"notes.md", "odd*name", "locked.md"} -> "file"
    [] input = "/dev/null" -> "other"
    [] OTHER -> "none"

\* the document stream of a single file yields its document
FileYields(input) == input # "locked.md"

\* number of documents the glob stream yields for a pattern
GlobCount(pattern) ==
  CASE pattern = "docs/**/*" -> 2
    [] pattern = "vendor/github.com/x/**/*" -> 1
    [] pattern = "*.md" -> 1
    [] OTHER -> 0

\* memorize_manager.rs:377  input.trim_end_matches('/')
RECURSIVE TrimEndSlash(_)
TrimEndSlash(str) ==
  IF Len(str) > 0 /\ SubSeq(str, Len(str), Len(str)) = "/"
    THEN TrimEndSlash(SubSeq(str, 1, Len(str) - 1))
    ELSE str

\* memorize_manager.rs:349-352
GithubPattern(input) ==
  TrimStartMatches(
    TrimStartMatches(TrimStartMatches(input, "https://"), "http://"),
    "github.com/")

\* mutant: the GitHub rule is tried before the HTTP rule
Loader_GithubFirst(input) ==
  IF StrContains(input, "github.com/") THEN "github"
  ELSE IF StartsWith(input, "http://") \/ StartsWith(input, "https://")
    THEN "http"
  ELSE IF PathKind(input) = "dir" THEN "dir"
  ELSE IF PathKind(input) = "file" THEN "file"
  ELSE IF StrContains(input, "*") \/ StrContains(input, "?") THEN "glob"
  ELSE "literal"

\* memorize_manager.rs:342, 348, 374-375, 399, 413, 436  the branch taken
Loader(input) ==
  IF StartsWith(input, "http://") \/ StartsWith(input, "https://")
    THEN "http"
  ELSE IF StrContains(input, "github.com/") THEN "github"
  ELSE IF PathKind(input) = "dir" THEN "dir"
  ELSE IF PathKind(input) = "file" THEN "file"
  ELSE IF StrContains(input, "*") \/ StrContains(input, "?") THEN "glob"
  ELSE "literal"

\* mutant: a glob that matches nothing is an error
ResolveContent_EmptyGlobFails(input) ==
  LET via == Loader(input)
  IN CASE via = "glob" /\ GlobCount(input) = 0 ->
            [ok |-> FALSE, via |-> via, data |-> "no files found"]
       [] OTHER -> [ok |-> TRUE, via |-> via, data |-> input]

\* memorize_manager.rs:340-437; loaded content is written "<loader>:<input>"
ResolveContent(input) ==
  LET via == Loader(input)
  IN CASE via = "http" -> [ok |-> TRUE, via |-> via, data |-> "http:" \o input]
       [] via = "github" ->
            IF StrContains(GithubPattern(input), "/")
              THEN [ok |-> TRUE, via |-> via,
                    data |-> "github:" \o GithubPattern(input)]
              ELSE [ok |-> FALSE, via |-> via,
                    data |-> "Invalid GitHub URL format: " \o input]
       [] via = "dir" ->
            IF GlobCount(TrimEndSlash(input) \o "/**/*") = 0
              THEN [ok |-> FALSE, via |-> via,
                    data |-> "No files found in directory: " \o input]
              ELSE [ok |-> TRUE, via |-> via, data |-> "dir:" \o input]
       [] via = "file" ->
            IF FileYields(input)
              THEN [ok |-> TRUE, via |-> via, data |-> "file:" \o input]
              ELSE [ok |-> FALSE, via |-> via,
                    data |-> "Failed to load file: " \o input]
       [] via = "glob" ->
            IF GlobCount(input) # 0
              THEN [ok |-> TRUE, via |-> via, data |-> "glob:" \o input]
              ELSE [ok |-> TRUE, via |-> "literal", data |-> input]
       [] OTHER -> [ok |-> TRUE, via |-> via, data |-> input]

\* mutant: the task is spawned and the id returned, the session is not stored
StartMemorize_NotStored(s, L, c) ==
  /\ pc[s] = "idle"
  /\ role[s] = "none"
  /\ \A t \in SessionIds : t < s => role[t] # "none"
  /\ role' = [role EXCEPT ![s] = "memorize"]
  /\ lib' = [lib EXCEPT ![s] = L]
  /\ content_input' = [content_input EXCEPT ![s] = c]
  /\ last_read_time' = [last_read_time EXCEPT ![s] = unix_timestamp_now]
  /\ wall' = [wall EXCEPT !.touched[s] = now]
  /\ pc' = [pc EXCEPT ![s] = "t_start"]
  /\ UNCHANGED <<limit, held, got, retEpoch, err, poolVars, storeVars, outVars>>
  /\ UNCHANGED <<sessions, status, stage, memory_id, error, created, resolved, readVars,
                 gcVars, now, cancelled>>

\* memorize_manager.rs:200-225 and 113-125
StartMemorize(s, L, c) ==
  /\ pc[s] = "idle"
  /\ role[s] = "none"
  /\ \A t \in SessionIds : t < s => role[t] # "none"
  /\ ReadLockHolders = {}
  /\ gcpc # "scan"
  /\ role' = [role EXCEPT ![s] = "memorize"]
  /\ lib' = [lib EXCEPT ![s] = L]
  /\ content_input' = [content_input EXCEPT ![s] = c]
  /\ status' = [status EXCEPT ![s] = "IN_PROGRESS"]
  /\ stage' = [stage EXCEPT ![s] = "Initializing"]
  /\ last_read_time' = [last_read_time EXCEPT ![s] = unix_timestamp_now]
  /\ wall' = [wall EXCEPT !.touched[s] = now]
  /\ sessions' = sessions \cup {s}
  /\ pc' = [pc EXCEPT ![s] = "t_start"]
  /\ UNCHANGED <<limit, held, got, retEpoch, err, poolVars, storeVars, outVars>>
  /\ UNCHANGED <<memory_id, error, created, resolved, readVars, gcVars, now, cancelled>>

taskFrame == <<role, lib, limit, got, retEpoch, poolVars, storeVars, outVars,
               sessions, content_input, last_read_time, readVars, gcVars, now, cancelled>>

\* memorize_manager.rs:267
TaskLoading(s) ==
  /\ pc[s] = "t_start"
  /\ stage' = [stage EXCEPT ![s] = "Loading content"]
  /\ pc' = [pc EXCEPT ![s] = "t_resolve"]
  /\ UNCHANGED <<taskFrame, held, err, status, memory_id, error, created, resolved, wall>>

\* mutant: the Err arm of resolve_content logs the error and ends the task
TaskResolve_ErrOnlyLogs(s) ==
  /\ pc[s] = "t_resolve"
  /\ resolved' = [resolved EXCEPT ![s] = ResolveContent(content_input[s])]
  /\ IF ResolveContent(content_input[s]).ok
       THEN /\ stage' = [stage EXCEPT ![s] = "Generating embeddings"]
            /\ pc' = [pc EXCEPT ![s] = "gc_fast"]
       ELSE /\ pc' = [pc EXCEPT ![s] = "t_done"]
            /\ UNCHANGED stage
  /\ UNCHANGED <<taskFrame, held, err, status, memory_id, error, created, wall>>

\* mutant: "Generating embeddings" is not published before get_coordinator
TaskResolve_NoStage(s) ==
  /\ pc[s] = "t_resolve"
  /\ resolved' = [resolved EXCEPT ![s] = ResolveContent(content_input[s])]
  /\ IF ResolveContent(content_input[s]).ok
       THEN /\ pc' = [pc EXCEPT ![s] = "gc_fast"]
            /\ UNCHANGED err
       ELSE /\ err' = [err EXCEPT ![s] = "Failed to load content: "
                                          \o ResolveContent(content_input[s]).data]
            /\ pc' = [pc EXCEPT ![s] = "f_status"]
  /\ UNCHANGED <<taskFrame, held, status, memory_id, error, created, wall, stage>>

\* mutant: the task asks for the coordinator whatever resolve_content returned
TaskResolve_IgnoresErr(s) ==
  /\ pc[s] = "t_resolve"
  /\ resolved' = [resolved EXCEPT ![s] = ResolveContent(content_input[s])]
  /\ stage' = [stage EXCEPT ![s] = "Generating embeddings"]
  /\ pc' = [pc EXCEPT ![s] = "gc_fast"]
  /\ UNCHANGED <<taskFrame, held, err, status, memory_id, error, created, wall>>

\* memorize_manager.rs:269-281 and 329-334
TaskResolve(s) ==
  /\ pc[s] = "t_resolve"
  /\ resolved' = [resolved EXCEPT ![s] = ResolveContent(content_input[s])]
  /\ IF ResolveContent(content_input[s]).ok
       THEN /\ stage' = [stage EXCEPT ![s] = "Generating embeddings"]
            /\ pc' = [pc EXCEPT ![s] = "gc_fast"]
            /\ UNCHANGED err
       ELSE /\ err' = [err EXCEPT ![s] = "Failed to load content: "
                                          \o ResolveContent(content_input[s]).data]
            /\ pc' = [pc EXCEPT ![s] = "f_status"]
            /\ UNCHANGED stage
  /\ UNCHANGED <<taskFrame, held, status, memory_id, error, created, wall>>

\* mutant: the task reports completion without calling add_memory
TaskStoring_SkipsStore(s) ==
  /\ pc[s] = "t_storing"
  /\ stage' = [stage EXCEPT ![s] = "Storing in database"]
  /\ pc' = [pc EXCEPT ![s] = "c_status"]
  /\ UNCHANGED <<taskFrame, held, err, status, memory_id, error, created, resolved, wall>>

\* memorize_manager.rs:287-289
TaskStoring(s) ==
  /\ pc[s] = "t_storing"
  /\ stage' = [stage EXCEPT ![s] = "Storing in database"]
  /\ pc' = [pc EXCEPT ![s] = "am_create"]
  /\ UNCHANGED <<taskFrame, held, err, status, memory_id, error, created, resolved, wall>>

\* mutant: complete() stores the memory id before it changes the status
CompleteStatus_MemoryIdFirst(s) ==
  /\ pc[s] = "c_status"
  /\ memory_id' = [memory_id EXCEPT ![s] = created[s]]
  /\ pc' = [pc EXCEPT ![s] = "c_memid"]
  /\ UNCHANGED <<taskFrame, held, err, status, error, stage, created, resolved, wall>>

\* memorize_manager.rs:137
CompleteStatus(s) ==
  /\ pc[s] = "c_status"
  /\ status' = [status EXCEPT ![s] = "COMPLETED"]
  /\ wall' = [wall EXCEPT !.terminal[s] = now]
  /\ pc' = [pc EXCEPT ![s] = "c_memid"]
  /\ UNCHANGED <<taskFrame, held, err, memory_id, error, stage, created, resolved>>

\* memorize_manager.rs:138
CompleteMemoryId(s) ==
  /\ pc[s] = "c_memid"
  /\ memory_id' = [memory_id EXCEPT ![s] = created[s]]
  /\ pc' = [pc EXCEPT ![s] = "c_progress"]
  /\ UNCHANGED <<taskFrame, held, err, status, error, stage, created, resolved, wall>>

\* mutant: after complete() the task falls through into the failure path
CompleteProgress_FallsThrough(s) ==
  /\ pc[s] = "c_progress"
  /\ stage' = [stage EXCEPT ![s] = "Completed"]
  /\ held' = [held EXCEPT ![s] = NoCoord]
  /\ pc' = [pc EXCEPT ![s] = "f_status"]
  /\ UNCHANGED <<taskFrame, err, status, memory_id, error, created, resolved, wall>>

\* memorize_manager.rs:139; the task ends and drops its coordinator
CompleteProgress(s) ==
  /\ pc[s] = "c_progress"
  /\ stage' = [stage EXCEPT ![s] = "Completed"]
  /\ held' = [held EXCEPT ![s] = NoCoord]
  /\ pc' = [pc EXCEPT ![s] = "t_done"]
  /\ UNCHANGED <<taskFrame, err, status, memory_id, error, created, resolved, wall>>

\* memorize_manager.rs:144
FailStatus(s) ==
  /\ pc[s] = "f_status"
  /\ status' = [status EXCEPT ![s] = "FAILED"]
  /\ wall' = [wall EXCEPT !.terminal[s] = now]
  /\ pc' = [pc EXCEPT ![s] = "f_error"]
  /\ UNCHANGED <<taskFrame, held, err, memory_id, error, stage, created, resolved>>

\* memorize_manager.rs:145; the task ends and drops its coordinator
FailError(s) ==
  /\ pc[s] = "f_error"
  /\ error' = [error EXCEPT ![s] = err[s]]
  /\ held' = [held EXCEPT ![s] = NoCoord]
  /\ pc' = [pc EXCEPT ![s] = "t_done"]
  /\ UNCHANGED <<taskFrame, err, status, memory_id, stage, created, resolved, wall>>

\* --------------------------------------- MemorizeSessionManager::get_status
\* memorize_manager.rs:229-235  read-lock the map, look up, touch()
GetStatusBegin(r, sid) ==
  /\ rpc[r] = "idle"
  /\ gcpc # "scan"
  /\ rsid' = [rsid EXCEPT ![r] = sid]
  /\ IF sid \in sessions
       THEN /\ last_read_time' = [last_read_time EXCEPT ![sid] = unix_timestamp_now]
            /\ wall' = [wall EXCEPT !.touched[sid] = now, !.read = @ \cup {sid}]
            /\ seenAtStart' = [seenAtStart EXCEPT ![r] = lastSeen[sid]]
            /\ rpc' = [rpc EXCEPT ![r] = "r_status"]
       ELSE /\ rpc' = [rpc EXCEPT ![r] = "r_notfound"]
            /\ UNCHANGED <<last_read_time, seenAtStart, wall>>
  /\ UNCHANGED <<procVars, poolVars, storeVars, outVars, gcVars, now, cancelled>>
  /\ UNCHANGED <<sessions, content_input, status, memory_id, error, stage,
                 created, resolved, resp, lastSeen>>

readFrame == <<procVars, poolVars, storeVars, outVars, sessVars, gcVars, now, cancelled,
               rsid, seenAtStart>>

\* memorize_manager.rs:238
GetStatusReadStatus(r) ==
  /\ rpc[r] = "r_status"
  /\ resp' = [resp EXCEPT ![r].status = status[rsid[r]]]
  /\ rpc' = [rpc EXCEPT ![r] = "r_memid"]
  /\ UNCHANGED <<readFrame, lastSeen>>

\* memorize_manager.rs:239
GetStatusReadMemoryId(r) ==
  /\ rpc[r] = "r_memid"
  /\ resp' = [resp EXCEPT ![r].memory_id = memory_id[rsid[r]]]
  /\ rpc' = [rpc EXCEPT ![r] = "r_error"]
  /\ UNCHANGED <<readFrame, lastSeen>>

\* memorize_manager.rs:240
GetStatusReadError(r) ==
  /\ rpc[r] = "r_error"
  /\ resp' = [resp EXCEPT ![r].error = error[rsid[r]]]
  /\ rpc' = [rpc EXCEPT ![r] = "r_progress"]
  /\ UNCHANGED <<readFrame, lastSeen>>

\* memorize_manager.rs:241-252  the response is returned, the read lock dropped
GetStatusReadProgress(r) ==
  /\ rpc[r] = "r_progress"
  /\ resp' = [resp EXCEPT ![r].stage = stage[rsid[r]]]
  /\ rpc' = [rpc EXCEPT ![r] = "r_done"]
  /\ lastSeen' = IF resp[r].status \in {"COMPLETED", "FAILED"}
                   THEN [lastSeen EXCEPT ![rsid[r]] = resp[r].status]
                   ELSE lastSeen
  /\ UNCHANGED readFrame

\* the caller has consumed the response (or the not-found error)
GetStatusReturn(r) ==
  /\ rpc[r] \in {"r_done", "r_notfound"}
  /\ rpc' = [rpc EXCEPT ![r] = "idle"]
  /\ resp' = [resp EXCEPT ![r] = NoResp]
  /\ seenAtStart' = [seenAtStart EXCEPT ![r] = ""]
  /\ rsid' = [rsid EXCEPT ![r] = 1]
  /\ UNCHANGED <<procVars, poolVars, storeVars, outVars, sessVars, gcVars, now, cancelled,
                 lastSeen>>

\* ---------------------------------- MemorizeSessionManager::cleanup_sessions
COMPLETED_SESSION_RETENTION_SECS == 30
FAILED_SESSION_RETENTION_SECS == 300

\* memorize_manager.rs:448  now.saturating_sub(last_read)
SaturatingSub(a, b) == IF a >= b THEN a - b ELSE 0

\* mutant: the retention test looks at the age only
ShouldRemove_IgnoresStatus(st, age_secs) ==
  age_secs >= COMPLETED_SESSION_RETENTION_SECS

\* mutant: a session is removed only when strictly older than its retention
ShouldRemove_StrictlyOlder(st, age_secs) ==
  CASE st = "COMPLETED" -> age_secs > COMPLETED_SESSION_RETENTION_SECS
    [] st = "FAILED" -> age_secs > FAILED_SESSION_RETENTION_SECS
    [] OTHER -> FALSE

\* memorize_manager.rs:452-456
ShouldRemove(st, age_secs) ==
  CASE st = "COMPLETED" -> age_secs >= COMPLETED_SESSION_RETENTION_SECS
    [] st = "FAILED" -> age_secs >= FAILED_SESSION_RETENTION_SECS
    [] OTHER -> FALSE

gcFrame == <<procVars, poolVars, storeVars, outVars, readVars, now, cancelled,
             content_input, status, memory_id, error, stage, last_read_time,
             created, resolved>>

\* memorize_manager.rs:472-475 and 441  the interval ticked; `now` is taken
CleanupBegin ==
  /\ gcpc = "idle"
  /\ gcNow' = unix_timestamp_now
  /\ wall' = [wall EXCEPT !.gc = now]
  /\ gcpc' = "lock"
  /\ UNCHANGED <<gcFrame, sessions, gcTodo, gcRemove>>

\* memorize_manager.rs:443-444  the write lock on the map is granted
CleanupLock ==
  /\ gcpc = "lock"
  /\ ReadLockHolders = {}
  /\ gcTodo' = sessions
  /\ gcRemove' = {}
  /\ gcpc' = "scan"
  /\ UNCHANGED <<gcFrame, sessions, gcNow, wall>>

\* memorize_manager.rs:446-461  one iteration of the loop over the map
CleanupVisit(s) ==
  /\ gcpc = "scan"
  /\ s \in gcTodo
  /\ gcTodo' = gcTodo \ {s}
  /\ gcRemove' = IF ShouldRemove(status[s], SaturatingSub(gcNow, last_read_time[s]))
                   THEN gcRemove \cup {s} ELSE gcRemove
  /\ UNCHANGED <<gcFrame, sessions, gcpc, gcNow, wall>>

\* memorize_manager.rs:463-467  remove, then the write lock is dropped
CleanupRemove ==
  /\ gcpc = "scan"
  /\ gcTodo = {}
  /\ sessions' = sessions \ gcRemove
  /\ gcRemove' = {}
  /\ gcNow' = 0
  /\ wall' = [wall EXCEPT !.gc = 0]
  /\ gcpc' = "idle"
  /\ UNCHANGED <<gcFrame, gcTodo>>

\* clock readings at which something is observed: just after the start, and
\* the two retention times after the start
Instants ==
  {1, COMPLETED_SESSION_RETENTION_SECS * TicksPerSec,
   FAILED_SESSION_RETENTION_SECS * TicksPerSec}

\* the wall clock advances to a later instant
TickTo(t) ==
  /\ t > now
  /\ now' = t
  /\ UNCHANGED <<procVars, poolVars, storeVars, outVars, sessVars, readVars,
                 gcVars, cancelled>>

\* the operator signals cancellation; nothing in the session manager or in
\* the background task holds or polls a cancellation token
Cancel ==
  /\ ~cancelled
  /\ cancelled' = TRUE
  /\ UNCHANGED <<procVars, poolVars, storeVars, outVars, sessVars, readVars,
                 gcVars, now>>

\* ------------------------------------------ CoordinatorPool::list_libraries
MaxLists == 2

\* byte values of the characters of the file names of the model
CharCode(c) ==
  CASE c = "." -> 46 [] c = "A" -> 65 [] c = "B" -> 66 [] c = "a" -> 97
    [] c = "b" -> 98 [] c = "d" -> 100 [] c = "i" -> 105 [] c = "l" -> 108
    [] c = "n" -> 110 [] c = "t" -> 116 [] c = "x" -> 120

\* Ord of String: byte-wise lexicographic
StrLessEq(a, b) ==
  \E k \in 0..Min(Len(a), Len(b)) :
    /\ \A i \in 1..k : a[i] = b[i]
    /\ \/ k = Len(a)
       \/ k < Len(b) /\ CharCode(a[k + 1]) < CharCode(b[k + 1])

\* position of the last '.' of a file name, 0 when it has none
LastDot(cs) ==
  LET D == {i \in 1..Len(cs) : cs[i] = "."}
  IN IF D = {} THEN 0 ELSE CHOOSE i \in D : \A j \in D : j <= i

\* Path::extension(): what follows the last '.', nothing when there is no
\* '.' or the only one is the first character
Extension(cs) ==
  IF LastDot(cs) <= 1 THEN <<>> ELSE SubSeq(cs, LastDot(cs) + 1, Len(cs))

\* Path::file_stem(): the file name without its extension
FileStem(cs) ==
  IF LastDot(cs) <= 1 THEN cs ELSE SubSeq(cs, 1, LastDot(cs) - 1)

\* mutant: every entry of the directory is taken for a library
IsLibraryEntry_AnyEntry(cs) == TRUE

\* pool.rs:219  path.extension() == Some("db")
IsLibraryEntry(cs) == Extension(cs) = <<"d", "b">>

RECURSIVE InsertSorted(_, _)
InsertSorted(x, s) ==
  IF s = <<>> THEN <<x>>
  ELSE IF StrLessEq(x, Head(s)) THEN <<x>> \o s
  ELSE <<Head(s)>> \o InsertSorted(x, Tail(s))

RECURSIVE SortedSeq(_)
SortedSeq(s) ==
  IF s = <<>> THEN <<>> ELSE InsertSorted(Head(s), SortedSeq(Tail(s)))

\* mutant: the vector is returned in the order read_dir yielded the entries
LibrariesSort_Skipped(s) == s

\* pool.rs:227  libraries.sort()
LibrariesSort(s) == SortedSeq(s)

listFrame == <<procVars, poolVars, storeVars, results, memories, evalVars,
               sessVars, readVars, gcVars, now, cancelled>>

\* the libraries whose coordinator is in the pool map
CachedLibraries == {L \in LibraryNames : coordinators[L] # NoCoord}

\* pool.rs:186-211  the directory is missing: Ok(empty); else read_dir opens
\* it, or fails
ListBegin ==
  /\ lpc = "idle"
  /\ lcalls < MaxLists
  /\ lhist' = [lhist EXCEPT !.begin = DirEntries(MemoryDir),
                            !.built = CachedLibraries]
  /\ IF MemoryDir \notin fs.dirs
       THEN /\ listed' = <<>>
            /\ lres' = "ok"
            /\ lcalls' = lcalls + 1
            /\ UNCHANGED <<lpc, lseen, libraries>>
       ELSE \/ /\ lpc' = "scan"
               /\ lseen' = {}
               /\ libraries' = <<>>
               /\ UNCHANGED <<listed, lres, lcalls>>
            \/ /\ lres' = "err"
               /\ lcalls' = lcalls + 1
               /\ UNCHANGED <<lpc, lseen, libraries, listed>>
  /\ UNCHANGED listFrame

\* pool.rs:213-224  one next_entry(): the stem of a *.db entry is pushed
ListNext(e) ==
  /\ lpc = "scan"
  /\ e \in DirEntries(MemoryDir) \ lseen
  /\ lseen' = lseen \cup {e}
  /\ libraries' = IF IsLibraryEntry(e) THEN Append(libraries, FileStem(e))
                                       ELSE libraries
  /\ UNCHANGED <<lpc, listed, lres, lcalls, lhist, listFrame>>

\* pool.rs:226-231  no entry is left: sort and return
ListEnd ==
  /\ lpc = "scan"
  /\ DirEntries(MemoryDir) \ lseen = {}
  /\ listed' = LibrariesSort(libraries)
  /\ lres' = "ok"
  /\ lcalls' = lcalls + 1
  /\ lhist' = [lhist EXCEPT !.prev = [valid |-> TRUE,
                                      entries |-> DirEntries(MemoryDir),
                                      result |-> LibrariesSort(libraries)]]
  /\ lpc' = "idle"
  /\ lseen' = {}
  /\ libraries' = <<>>
  /\ UNCHANGED listFrame

ListLibraries ==
  \/ ListBegin
  \/ \E e \in DirEntries(MemoryDir) : ListNext(e)
  \/ ListEnd

\* ------------------------------------------------------- specifications
TaskStep(s) ==
  \/ TaskLoading(s)
  \/ TaskResolve(s)
  \/ TaskStoring(s)
  \/ AddMemoryCreate(s)
  \/ AddMemoryUpdate(s)
  \/ CompleteStatus(s)
  \/ CompleteMemoryId(s)
  \/ CompleteProgress(s)
  \/ FailStatus(s)
  \/ FailError(s)

GetStatusStep(r) ==
  \/ \E sid \in SessionIds : GetStatusBegin(r, sid)
  \/ GetStatusReadStatus(r)
  \/ GetStatusReadMemoryId(r)
  \/ GetStatusReadError(r)
  \/ GetStatusReadProgress(r)
  \/ GetStatusReturn(r)

Cleanup ==
  \/ CleanupBegin
  \/ CleanupLock
  \/ \E s \in SessionIds : CleanupVisit(s)
  \/ CleanupRemove

\* the pool alone: every task is a recall call, shutdown_all may run once
NextPool ==
  \/ \E p \in Procs, L \in Libraries, n \in RecallLimits : StartRecall(p, L, n)
  \/ \E p \in Procs : RecallSearch(p)
  \/ \E p \in Procs : GetCoordinator(p)
  \/ Shutdown

SpecPool == Init /\ [][NextPool]_vars

\* memorize tasks, recall and decay, without status readers and session GC
NextStore ==
  \/ \E s \in SessionIds, L \in Libraries, c \in ContentInputs : StartMemorize(s, L, c)
  \/ \E s \in SessionIds : TaskStep(s)
  \/ \E p \in RecallIds, L \in Libraries : StartRecall(p, L, DefaultLimit)
  \/ \E p \in RecallIds : RecallSearch(p)
  \/ \E p \in Procs : GetCoordinator(p)
  \/ \E L \in Libraries : Decay(L)

SpecStore == Init /\ [][NextStore]_vars

\* concurrent memorize tasks and status readers
NextSession ==
  \/ \E s \in SessionIds, c \in ContentInputs : StartMemorize(s, "libA", c)
  \/ \E s \in SessionIds : TaskStep(s)
  \/ \E p \in SessionIds : GetCoordinator(p)
  \/ \E r \in ReaderIds : GetStatusStep(r)

SpecSession == Init /\ [][NextSession]_vars

\* one session followed over its retention times: its task, status reads,
\* session GC, the clock at the instants that matter, and cancellation
TimelineSessions == {1}

\* the steps of a task that is alone in its library: its CREATE never hits
\* the unique index
TaskStepAlone(s) ==
  \/ TaskLoading(s)
  \/ TaskResolve(s)
  \/ TaskStoring(s)
  \/ AddMemoryCreate(s)
  \/ CompleteStatus(s)
  \/ CompleteMemoryId(s)
  \/ CompleteProgress(s)
  \/ FailStatus(s)
  \/ FailError(s)

NextTimeline ==
  \/ \E s \in TimelineSessions, c \in ContentInputs : StartMemorize(s, "libA", c)
  \/ \E s \in TimelineSessions : TaskStepAlone(s)
  \/ \E s \in TimelineSessions : GetCoordinator(s)
  \/ \E r \in ReaderIds : GetStatusStep(r)
  \/ Cleanup
  \/ \E t \in Instants : TickTo(t)
  \/ Cancel

SpecTimeline == Init /\ [][NextTimeline]_vars

\* memorize and recall on every library name of the model, valid or not
NextNames ==
  \/ \E s \in SessionIds, L \in LibraryNames : StartMemorize(s, L, "hello")
  \/ \E s \in SessionIds : TaskStep(s)
  \/ \E p \in RecallIds, L \in LibraryNames : StartRecall(p, L, DefaultLimit)
  \/ \E p \in RecallIds : RecallSearch(p)
  \/ \E p \in Procs : GetCoordinator(p)

SpecNames == Init /\ [][NextNames]_vars

\* list_libraries next to tasks that create libraries, in every environment:
\* the base directories known or not, the memory directory there or not
ListProcs == 1..2
ListNames == Libraries \cup {"a.b"}

InitList ==
  /\ InitPool /\ InitProcs /\ InitStore /\ InitSessions /\ InitGraph(NoEdges, {})
  /\ InitSchema([L \in LibraryNames |-> NoSchema])
  /\ \E env \in Envs :
       \E other \in {{}, {[dir |-> MemoryDirOf(env), name |-> NotesTxt]}} :
          InitFs(env, other)

NextList ==
  \/ \E p \in ListProcs, L \in ListNames : StartRecall(p, L, DefaultLimit)
  \/ \E p \in ListProcs : RecallSearch(p)
  \/ \E p \in ListProcs : GetCoordinator(p)
  \/ ListLibraries

SpecList == InitList /\ [][NextList]_vars

\* one session on every kind of content input
NextResolve ==
  \/ \E s \in TimelineSessions, c \in ResolveInputs : StartMemorize(s, "libA", c)
  \/ \E s \in TimelineSessions : TaskStepAlone(s)
  \/ \E s \in TimelineSessions : GetCoordinator(s)

SpecResolve == Init /\ [][NextResolve]_vars

\* the background tasks under the scheduler: a spawned task that can take a
\* step is eventually polled, and resolve_content, get_coordinator and
\* add_memory return
NextProgress ==
  \/ \E s \in SessionIds, c \in ContentInputs : StartMemorize(s, "libA", c)
  \/ \E s \in SessionIds : TaskStep(s)
  \/ \E s \in SessionIds : GetCoordinator(s)

SpecProgress ==
  /\ Init /\ [][NextProgress]_vars
  /\ \A s \in SessionIds : WF_vars(TaskStep(s)) /\ WF_vars(GetCoordinator(s))

\* the pool with the workers of its coordinators: every task and every
\* worker that can take a step eventually takes one
NextRelease ==
  \/ NextPool
  \/ \E k \in CoordIds, w \in WorkerIds : WorkerExit(k, w)

SpecRelease ==
  /\ Init /\ [][NextRelease]_vars
  /\ \A p \in Procs : WF_vars(GetCoordinator(p)) /\ WF_vars(RecallSearch(p))
  /\ \A k \in CoordIds, w \in WorkerIds : WF_vars(WorkerExit(k, w))

\* the cleanup task next to one memorize session, the clock and the two
\* ways the process is told to stop; the interval keeps ticking and every
\* spawned task is scheduled
NextStop ==
  \/ \E s \in TimelineSessions, c \in ContentInputs : StartMemorize(s, "libA", c)
  \/ \E s \in TimelineSessions : TaskStepAlone(s)
  \/ \E s \in TimelineSessions : GetCoordinator(s)
  \/ Cleanup
  \/ \E t \in Instants : TickTo(t)
  \/ Cancel
  \/ Shutdown

SpecStop ==
  /\ Init /\ [][NextStop]_vars
  /\ WF_vars(Cleanup)
  /\ \A s \in TimelineSessions :
       WF_vars(TaskStepAlone(s)) /\ WF_vars(GetCoordinator(s))

\* recalls on libraries that have stored edges or none, whose edge query
\* works or fails
GraphEdges ==
  [L \in LibraryNames |->
     IF L = "libA" THEN {[a |-> 1, b |-> 2, strength |-> 50]}
     ELSE IF L = "libB" THEN {[a |-> 1, b |-> 2, strength |-> 80],
                              [a |-> 2, b |-> 1, strength |-> 80]}
     ELSE {}]

InitGraphs ==
  /\ InitPool /\ InitProcs /\ InitStore /\ InitSessions /\ InitFs(DefaultEnv, {})
  /\ \E fault \in SUBSET Libraries : InitGraph(GraphEdges, fault)
  /\ \E v \in BuiltinMigrations \cup {NoSchema} :
       InitSchema([L \in LibraryNames |-> IF L = "libA" THEN v ELSE NoSchema])

NextGraph ==
  \/ \E p \in ListProcs, L \in Libraries : StartRecall(p, L, DefaultLimit)
  \/ \E p \in ListProcs : RecallSearch(p)
  \/ \E p \in ListProcs : GetCoordinator(p)

SpecGraph == InitGraphs /\ [][NextGraph]_vars

\* what the model may answer to a batch prompt
BatchResponses ==
  {"", "I cannot score these.", "[0.8, 0.6]", "[0.8]", "[1, 0]",
   "Scores: [0.8, 0.6] as requested", "[0.8, 1.5]", "[0.8, 0.6, 0.9]",
   "[0.8,]", "[ ]", "[]", "[-0.5, 0.6]", "[0.8, high]", "[01, 0.5]",
   "[1.2.3, 0.5]", "[0.80 ,  0.05]", "[2]", "(0.8, 0.6)", "[0.8, 0.6",
   "[.5, 0.6]", "[1., 0.6]", "[0.8 0.6]", "[1] then [0.8, 0.6]",
   "[0.8, 0.6] or [7]"}

MaxBatch == 3
BatchIds == {"m1", "m2", "m3"}

\* batches of at most MaxBatch memories with distinct ids
Batches ==
  {ms \in UNION {[1..n -> BatchIds] : n \in 0..MaxBatch} :
     \A i, j \in 1..Len(ms) : i # j => ms[i] # ms[j]}

NextBatch == \E ms \in Batches, response \in BatchResponses : EvaluateBatch(ms, response)

SpecBatch == Init /\ [][NextBatch]_vars

\* get_coordinator calls on two libraries beside shutdown_all, every task
\* that can take a step eventually taking one
NextLive ==
  \/ \E p \in Procs, L \in Libraries : StartRecall(p, L, DefaultLimit)
  \/ \E p \in Procs : RecallSearch(p)
  \/ \E p \in Procs : GetCoordinator(p)
  \/ Shutdown

SpecLive ==
  /\ Init /\ [][NextLive]_vars
  /\ \A p \in Procs : WF_vars(GetCoordinator(p)) /\ WF_vars(RecallSearch(p))

\* ------------------------------------------------------------- properties
Built(L) == Cardinality({k \in CoordIds : coordDb[k] = L})

\* C1: from_library(L) never runs in two callers at once; without
\* shutdown_all a library is built at most once, nobody constructs after a
\* successful construction, and when no construction failed the schema
\* initialisation of the library ran at most once (exactly once after success).
C1_SingleConstruction ==
  /\ \A p, q \in Procs :
       (p # q /\ InFromLibrary(p) /\ InFromLibrary(q)) => lib[p] # lib[q]
  /\ shutdowns = 0 =>
       \A L \in Libraries :
         /\ Built(L) <= 1
         /\ Built(L) = 1 => ~(\E p \in Procs : lib[p] = L /\ InFromLibrary(p))
         /\ fails[L] = 0 => initRuns[L] <= 1
         /\ (fails[L] = 0 /\ Built(L) = 1) => initRuns[L] = 1

\* three concurrent calls on one new library: one constructs, one waits for
\* the init mutex, one already holds the instance that was built
C1_Witness ==
  /\ shutdowns = 0
  /\ \E p, q \in Procs :
       /\ p # q /\ lib[p] = lib[q]
       /\ got[p] # NoCoord /\ got[q] # NoCoord
       /\ Built(lib[p]) = 1 /\ initRuns[lib[p]] = 1
       /\ \E w \in Procs \ {p, q} : lib[w] = lib[p] /\ pc[w] = "gc_lock"

ConstructedOk(L) ==
  \E k \in CoordIds :
    /\ coordDb[k] = L
    /\ ~(\E p \in Procs : pc[p] = "gc_insert" /\ held[p] = k)

\* C2: an Ok return hands out the instance stored in the map under L; two
\* successful calls for one library with no shutdown_all between them get the
\* same instance; without shutdown_all pool_size is the number of libraries
\* constructed successfully.
C2_SameInstance ==
  /\ \A p \in Procs :
       (got[p] # NoCoord /\ retEpoch[p] = shutdowns) =>
          coordinators[lib[p]] = got[p]
  /\ \A p, q \in Procs :
       (got[p] # NoCoord /\ got[q] # NoCoord /\ lib[p] = lib[q]
          /\ retEpoch[p] = retEpoch[q]) => got[p] = got[q]
  /\ shutdowns = 0 =>
       pool_size = Cardinality({L \in Libraries : ConstructedOk(L)})

C2_Witness ==
  /\ shutdowns = 0
  /\ pool_size = 2
  /\ \E p, q \in Procs :
       p # q /\ lib[p] = lib[q] /\ got[p] # NoCoord /\ got[p] = got[q]

C4_SameIdInv ==
  \A s, t \in SessionIds :
    (s # t /\ lib[s] = lib[t] /\ content_input[s] = content_input[t]
       /\ created[s] # NoMemory /\ created[t] # NoMemory) =>
      /\ created[s] = created[t]
      /\ Cardinality({r \in rows[lib[s]] :
                        r.hash = ContentHash(content_input[s])}) = 1
      /\ (memory_id[s] # NoMemory /\ memory_id[t] # NoMemory) =>
            memory_id[s] = memory_id[t]

C4_ResetStep ==
  \A s \in SessionIds :
    (pc[s] = "am_update" /\ pc'[s] = "c_status") =>
      \E r \in rows'[lib[s]] :
        r.id = created'[s] /\ r.importance = FullImportance

C4_SameIdAndImportance == []C4_SameIdInv /\ [][C4_ResetStep]_vars

\* the first session is finished, the row was decayed, and the second store
\* of the same content is at the update that resolves the duplicate
C4_Witness ==
  \E s, t \in SessionIds :
    /\ s # t /\ lib[s] = lib[t] /\ content_input[s] = content_input[t]
    /\ pc[s] = "t_done" /\ status[s] = "COMPLETED"
    /\ pc[t] = "am_update"
    /\ \E r \in rows[lib[s]] :
         r.id = memory_id[s] /\ r.importance = DecayedImportance

\* the response of reader r already carries the status it read
HasReadStatus(r) == rpc[r] \in {"r_memid", "r_error", "r_progress", "r_done"}

\* positions of the background task before complete() / fail() wrote the status
BeforeTerminal ==
  {"t_start", "t_resolve", "gc_fast", "gc_locks_read", "gc_locks_write",
   "gc_lock", "gc_recheck", "fl_connect", "fl_initialize", "fl_new", "fl_edges",
   "gc_insert", "t_storing", "am_create", "am_update", "c_status", "f_status"}

\* C5: a session is IN_PROGRESS until its task writes COMPLETED or FAILED,
\* and a get_status that starts after some get_status returned a terminal
\* status for the session reads that same status.
C5_StatusMonotonic ==
  /\ \A s \in SessionIds :
       (role[s] = "memorize" /\ pc[s] \in BeforeTerminal) =>
          status[s] = "IN_PROGRESS"
  /\ \A s \in SessionIds :
       lastSeen[s] # "" => status[s] = lastSeen[s]
  /\ \A r \in ReaderIds :
       (HasReadStatus(r) /\ seenAtStart[r] # "") =>
          resp[r].status = seenAtStart[r]

C5_Witness ==
  \E r \in ReaderIds :
    /\ rpc[r] = "r_done"
    /\ seenAtStart[r] \in {"COMPLETED", "FAILED"}
    /\ resp[r].status = seenAtStart[r]

\* C6: every status response that reports COMPLETED carries a memory_id.
C6_CompletedHasMemoryId ==
  \A r \in ReaderIds :
    (rpc[r] = "r_done" /\ resp[r].status = "COMPLETED") =>
       resp[r].memory_id # NoMemory

\* C7: every status response that reports FAILED carries an error message.
C7_FailedHasError ==
  \A r \in ReaderIds :
    (rpc[r] = "r_done" /\ resp[r].status = "FAILED") => resp[r].error # ""

Stored(L, id) == \E r \in rows[L] : r.id = id

\* C8: COMPLETED is written only after add_memory returned Ok: whenever the
\* status of a session, or a response built for it, is COMPLETED, the row
\* add_memory returned is committed in the session's library, and a reported
\* memory_id is the id of that row.
C8_CompletedAfterStore ==
  /\ \A s \in SessionIds :
       status[s] = "COMPLETED" =>
          /\ created[s] # NoMemory
          /\ Stored(lib[s], created[s])
          /\ memory_id[s] \in {NoMemory, created[s]}
  /\ \A r \in ReaderIds :
       (HasReadStatus(r) /\ resp[r].status = "COMPLETED") =>
          /\ Stored(lib[rsid[r]], created[rsid[r]])
          /\ resp[r].memory_id \in {NoMemory, created[rsid[r]]}

C8_Witness ==
  \E r \in ReaderIds :
    /\ rpc[r] = "r_done"
    /\ resp[r].status = "COMPLETED"
    /\ resp[r].memory_id # NoMemory
    /\ Stored(lib[rsid[r]], resp[r].memory_id)

\* C9: a recall on one library never returns a memory that a session stored
\* through another library, and every id it returns is a row of the database
\* of the library it named.
C9_LibraryIsolation ==
  \A p \in RecallIds :
    pc[p] = "rc_done" =>
      /\ \A id \in results[p] : Stored(lib[p], id)
      /\ \A s \in SessionIds :
           (created[s] # NoMemory /\ lib[s] # lib[p]) =>
              created[s] \notin results[p]

\* both libraries hold a memory and a recall on one of them returned its own
C9_Witness ==
  \E p \in RecallIds : \E s, t \in SessionIds :
    /\ pc[p] = "rc_done"
    /\ lib[s] = lib[p] /\ lib[t] # lib[p]
    /\ created[s] # NoMemory /\ created[t] # NoMemory
    /\ results[p] = {created[s]}

\* C10: a session whose status is IN_PROGRESS is registered and is not picked
\* for removal, whatever its age.
C10_InProgressKept ==
  \A s \in SessionIds :
    (role[s] = "memorize" /\ status[s] = "IN_PROGRESS") =>
       (s \in sessions /\ s \notin gcRemove)

\* cleanup visited an IN_PROGRESS session older than every retention time
C10_Witness ==
  \E s \in SessionIds :
    /\ gcpc = "scan"
    /\ s \in sessions /\ s \notin gcTodo
    /\ status[s] = "IN_PROGRESS"
    /\ gcNow - last_read_time[s] >= FAILED_SESSION_RETENTION_SECS

\* ------------------------------------------------ retention of a session
\* retention time of a terminal status, in seconds
Retention(st) ==
  IF st = "COMPLETED" THEN COMPLETED_SESSION_RETENTION_SECS
                      ELSE FAILED_SESSION_RETENTION_SECS

\* this step of cleanup_sessions removes session s from the map
Removes(s) == s \in sessions /\ s \notin sessions'

\* C11 as stated: the GC never removes a COMPLETED session whose last status
\* read was less than 30 s before the removal, nor a FAILED session whose last
\* status read was less than 300 s before it.
C11_RecentlyReadKept ==
  [][\A s \in SessionIds :
       (Removes(s) /\ s \in wall.read) =>
          now - wall.touched[s] >= Retention(status[s]) * TicksPerSec]_vars

\* C12: a session that became terminal is not removed before its retention
\* time (30 s COMPLETED, 300 s FAILED) has passed since it became terminal.
C12_RetainedSinceTerminal ==
  [][\A s \in SessionIds :
       Removes(s) =>
          now - wall.terminal[s] >= Retention(status[s]) * TicksPerSec]_vars

\* C13: the GC run that starts at least 30 s after the last touch of a
\* COMPLETED session picks it, the run ends by removing what it picked, a
\* removed session never comes back, and get_status finds only registered
\* sessions (everything else is answered not-found).
C13_Step ==
  /\ \A s \in SessionIds :
       (gcpc = "scan" /\ s \in gcTodo /\ s \notin gcTodo'
          /\ status[s] = "COMPLETED"
          /\ wall.gc - wall.touched[s] >=
               COMPLETED_SESSION_RETENTION_SECS * TicksPerSec)
         => s \in gcRemove'
  /\ (gcpc = "scan" /\ gcpc' = "idle") => sessions' = sessions \ gcRemove
  /\ \A s \in SessionIds :
       (role[s] = "memorize" /\ s \notin sessions) => s \notin sessions'
  /\ \A r \in ReaderIds :
       (rpc[r] = "idle" /\ rpc'[r] # "idle") =>
          (rpc'[r] = "r_notfound") = (rsid'[r] \notin sessions)

C13_CompletedRemoved == [][C13_Step]_vars

\* a COMPLETED session that was read was removed exactly 30 s after that
\* read, and a later get_status for it was answered not-found
C13_Witness ==
  \E r \in ReaderIds :
    /\ rpc[r] = "r_notfound"
    /\ status[rsid[r]] = "COMPLETED"
    /\ rsid[r] \in wall.read
    /\ now - wall.touched[rsid[r]] =
         COMPLETED_SESSION_RETENTION_SECS * TicksPerSec

\* C14: from the moment the background task exists until it writes a terminal
\* status the session is in the map, and no get_status for a session that is
\* IN_PROGRESS is answered not-found.
C14_Registered ==
  \A s \in SessionIds :
    (role[s] = "memorize" /\ pc[s] \in BeforeTerminal) => s \in sessions

C14_LookupStep ==
  \A r \in ReaderIds :
    (rpc[r] = "idle" /\ rpc'[r] = "r_notfound") =>
       ~(role[rsid'[r]] = "memorize" /\ status[rsid'[r]] = "IN_PROGRESS")

C14_FoundWhileRunning == []C14_Registered /\ [][C14_LookupStep]_vars

\* a get_status returned IN_PROGRESS before the task ran its first step
C14_Witness ==
  \E r \in ReaderIds :
    /\ rpc[r] = "r_done"
    /\ resp[r].status = "IN_PROGRESS"
    /\ pc[rsid[r]] = "t_start"

\* ------------------------------------------------------ stages of a task
\* the order of the stage names
StageRank(st) ==
  CASE st = "Initializing" -> 0
    [] st = "Loading content" -> 1
    [] st = "Generating embeddings" -> 2
    [] st = "Storing in database" -> 3
    [] st = "Completed" -> 4

\* positions of a task inside get_coordinator
InGetCoordinator ==
  {"gc_fast", "gc_locks_read", "gc_locks_write", "gc_lock", "gc_recheck",
   "fl_connect", "fl_initialize", "fl_new", "fl_edges", "gc_insert"}

\* C15: the stage of a session never moves backwards and a status response
\* never shows a later stage than the session has, so successive reads see
\* the stages in order; while content is resolved the stage is Loading
\* content, while the coordinator is obtained it is Generating embeddings,
\* while add_memory runs it is Storing in database.
C15_StageInv ==
  /\ \A r \in ReaderIds :
       rpc[r] = "r_done" =>
          StageRank(resp[r].stage) <= StageRank(stage[rsid[r]])
  /\ \A s \in SessionIds :
       role[s] = "memorize" =>
          /\ pc[s] = "t_resolve" => stage[s] = "Loading content"
          /\ pc[s] \in InGetCoordinator => stage[s] = "Generating embeddings"
          /\ pc[s] \in {"am_create", "am_update"} =>
                stage[s] = "Storing in database"

C15_StageStep ==
  \A s \in SessionIds : StageRank(stage'[s]) >= StageRank(stage[s])

C15_StagesInOrder == []C15_StageInv /\ [][C15_StageStep]_vars

\* a response shows Storing in database while the session is already at Completed
C15_Witness ==
  \E r \in ReaderIds :
    /\ rpc[r] = "r_done"
    /\ resp[r].stage = "Storing in database"
    /\ stage[rsid[r]] = "Completed"

\* C16: once cancellation was signalled no background task starts a further
\* stage, and a session that was still IN_PROGRESS ends FAILED with the error
\* "cancelled", never COMPLETED or with another error.
C16_CancelStopsTask ==
  [][\A s \in SessionIds :
       (cancelled /\ role[s] = "memorize") =>
          /\ stage'[s] = stage[s]
          /\ status'[s] # status[s] => status'[s] = "FAILED"
          /\ error'[s] # error[s] => error'[s] = "cancelled"]_vars

\* ------------------------------------------------ failed constructions
\* this step is the failure of a construction for library L
FailsNow(L) == fails'[L] # fails[L]

\* C17: a failed construction returns the error to its caller, writes nothing
\* to the pool map, leaves the init mutex of the library free and every other
\* library's entry and mutex as they were; a caller that then finds no entry
\* under the init mutex constructs again.
C17_FailureStep ==
  /\ \A L \in LibraryNames :
       FailsNow(L) =>
          /\ coordinators' = coordinators
          /\ guard'[L] = NoProc
          /\ \A M \in LibraryNames \ {L} : guard'[M] = guard[M]
          /\ \E p \in Procs :
               /\ lib[p] = L /\ InFromLibrary(p)
               /\ pc'[p] \in {"rc_err", "f_status"}
               /\ err'[p] # "" /\ got'[p] = NoCoord /\ held'[p] = NoCoord
  /\ \A p \in Procs :
       (pc[p] = "gc_recheck" /\ pc'[p] # pc[p]
          /\ coordinators[lib[p]] = NoCoord) => pc'[p] = "fl_connect"

C17_FailureNotCached == [][C17_FailureStep]_vars

\* a construction for one library failed, a later call built that library,
\* and the other library is cached as well
C17_Witness ==
  /\ shutdowns = 0
  /\ \E L \in Libraries :
       /\ fails[L] >= 1
       /\ coordinators[L] # NoCoord
       /\ \E M \in Libraries \ {L} : coordinators[M] # NoCoord /\ fails[M] = 0

Drained(k) ==
  /\ coordDb[k] # NoLibrary
  /\ \A L \in LibraryNames : coordinators[L] # k
  /\ ~(\E p \in Procs : pc[p] = "gc_insert" /\ held[p] = k)

\* C19: every coordinator that shutdown_all drained from the pool had
\* shutdown_workers called on it, so none of its workers is left running and
\* holding the database open, whoever else held a reference to it.
C19_NoWorkerAfterShutdown ==
  \A k \in CoordIds : Drained(k) => k \in shut

\* ------------------------------------------------------ recall with limit 0
\* C20: a recall with limit 0 returns the empty list and no step of it
\* creates a database file, builds or caches a coordinator, or runs a schema
\* initialisation.
C20_LimitZeroStep ==
  \A p \in Procs :
    (role[p] = "recall" /\ limit[p] = 0 /\ pc'[p] # pc[p]) =>
       /\ dbFiles' = dbFiles
       /\ coordinators' = coordinators
       /\ coordDb' = coordDb
       /\ initRuns' = initRuns

C20_LimitZeroInv ==
  \A p \in Procs :
    (role[p] = "recall" /\ limit[p] = 0 /\ pc[p] = "rc_done") => results[p] = {}

C20_LimitZeroNoSideEffects == []C20_LimitZeroInv /\ [][C20_LimitZeroStep]_vars

\* ------------------------------------------------------ the recall response
\* C21: in every recall response the i-th memory has rank i, count is the
\* number of memories, each score is similarity x importance of its memory,
\* and the scores do not increase with the rank.
C21_RankedResponse ==
  \A p \in RecallIds :
    pc[p] = "rc_done" =>
      /\ RecallCount(p) = Cardinality(results[p])
      /\ \A i \in 1..Len(memories[p]) :
           /\ memories[p][i].rank = i
           /\ memories[p][i].score =
                memories[p][i].similarity * memories[p][i].importance
      /\ \A i \in 1..(Len(memories[p]) - 1) :
           memories[p][i].score >= memories[p][i + 1].score

\* a response with two memories: the decayed one has the higher similarity
\* and still the lower score, so it has rank 2
C21_Witness ==
  \E p \in RecallIds :
    /\ pc[p] = "rc_done"
    /\ Len(memories[p]) = 2
    /\ memories[p][1].importance = FullImportance
    /\ memories[p][2].importance = DecayedImportance
    /\ memories[p][2].similarity > memories[p][1].similarity
    /\ memories[p][1].score > memories[p][2].score

\* ------------------------------------------------------------ list_libraries
\* this step is a return of list_libraries with Ok
ListReturnsOk == lcalls' # lcalls /\ lres' = "ok"

\* this step belongs to a list_libraries call
ListStepTaken == lcalls' # lcalls \/ lpc' # lpc \/ lseen' # lseen

\* the stems of the *.db entries of the memory directory
DbStems ==
  (IF MemoryDir = LibraryDir THEN {NameChars(L) : L \in dbFiles} ELSE {})

Ascending(s) ==
  \A i \in 1..(Len(s) - 1) : StrLessEq(s[i], s[i + 1]) /\ s[i] # s[i + 1]

\* C22: list_libraries returns the stems of the *.db entries of the memory
\* directory in ascending order (when the directory did not change during
\* the call), a repeated call on an unchanged directory returns what the
\* previous call returned, a missing directory gives the empty list and no
\* error, and no step of the call changes the pool map, the init locks, the
\* coordinators, the databases or the disk.
C22_Step ==
  /\ ListReturnsOk =>
       /\ Ascending(listed')
       /\ DirEntries(MemoryDir) = lhist'.begin =>
            /\ {listed'[i] : i \in 1..Len(listed')} = DbStems
            /\ Len(listed') = Cardinality(DbStems)
       /\ (lhist.prev.valid /\ lhist.prev.entries = lhist'.begin
             /\ DirEntries(MemoryDir) = lhist'.begin) =>
            listed' = lhist.prev.result
  /\ (lcalls' # lcalls /\ MemoryDir \notin fs.dirs) =>
       (lres' = "ok" /\ listed' = <<>>)
  /\ ListStepTaken =>
       /\ UNCHANGED <<coordinators, init_locks, guard, coordDb, nextCoord>>
       /\ UNCHANGED <<dbFiles, fs, initRuns, rows>>

C22_ListSortedAndPure == [][C22_Step]_vars

\* a second call returned the two libraries of the directory in order, as
\* the first did, although the scan met them in the other order and met a
\* file that is no database
C22_Witness ==
  /\ lcalls = 2 /\ lres = "ok"
  /\ listed = <<NameChars("a.b"), NameChars("libA")>>
  /\ lhist.prev.result = listed
  /\ NotesTxt \in DirEntries(MemoryDir)

\* C23: a list_libraries call that begins after the coordinator of library L
\* was created and returns Ok has L in its result.
C23_CreatedLibraryListed ==
  [][ListReturnsOk =>
       \A L \in lhist'.built :
         \E i \in 1..Len(listed') : listed'[i] = NameChars(L)]_vars

\* ---------------------------------------------------------- content inputs
IsHttp(in) == StartsWith(in, "http://") \/ StartsWith(in, "https://")
IsGithub(in) == StrContains(in, "github.com/")
HasWildcard(in) == StrContains(in, "*") \/ StrContains(in, "?")

\* a glob pattern that matches no file: no earlier rule takes the input
GlobWithoutMatch(in) ==
  /\ ~IsHttp(in) /\ ~IsGithub(in) /\ PathKind(in) = "none"
  /\ HasWildcard(in) /\ GlobCount(in) = 0

\* the task of session s is past resolve_content
Resolved(s) == role[s] = "memorize" /\ pc[s] \notin {"t_start", "t_resolve"}

\* C24 as stated: a session whose content is a glob pattern that matches no
\* file stores nothing and ends FAILED with an error containing "no files
\* found".
C24_EmptyGlobFails ==
  \A s \in SessionIds :
    (role[s] = "memorize" /\ GlobWithoutMatch(content_input[s])) =>
       /\ created[s] = NoMemory
       /\ status[s] # "COMPLETED"
       /\ pc[s] = "t_done" =>
            (status[s] = "FAILED" /\ StrContains(error[s], "no files found"))

\* C24 as amended: a glob pattern that matches no file is resolved to itself
\* as literal text; the session never fails on loading its content, and it
\* ends COMPLETED with that text stored unless get_coordinator or add_memory
\* failed.
C24_EmptyGlobIsLiteral ==
  \A s \in SessionIds :
    (Resolved(s) /\ GlobWithoutMatch(content_input[s])) =>
       /\ resolved[s].ok /\ resolved[s].data = content_input[s]
       /\ err[s] \in {"", "Failed to get coordinator", "Failed to store memory"}
       /\ (pc[s] = "t_done" /\ err[s] = "") =>
            /\ status[s] = "COMPLETED"
            /\ Stored(lib[s], created[s])

\* the session on "*.none" ended COMPLETED with a stored memory
C24_Witness ==
  \E s \in SessionIds :
    /\ content_input[s] = "*.none" /\ pc[s] = "t_done"
    /\ status[s] = "COMPLETED" /\ Stored(lib[s], memory_id[s])

InTerminalCall == {"c_status", "c_memid", "c_progress", "f_status", "f_error"}

\* a task enters complete() or fail() only where it did not enter one before
C26_OneTerminalCall ==
  \A s \in SessionIds :
    (pc'[s] \in {"c_status", "f_status"} /\ pc'[s] # pc[s]) =>
       (pc[s] \notin InTerminalCall \cup {"t_done"}
          /\ status[s] = "IN_PROGRESS")

\* a task that ended went through complete() or fail()
C26_EndedTerminal ==
  \A s \in SessionIds :
    (role[s] = "memorize" /\ pc[s] = "t_done") =>
       status[s] \in {"COMPLETED", "FAILED"}

\* C26: every started session eventually is COMPLETED or FAILED; its task
\* calls complete() or fail() once, and it has done so when it ends.
C26_SessionTerminates ==
  /\ \A s \in SessionIds :
       (role[s] = "memorize") ~> (status[s] \in {"COMPLETED", "FAILED"})
  /\ [][C26_OneTerminalCall]_vars
  /\ []C26_EndedTerminal

\* both tasks ended, one through complete() and one through fail()
C26_Witness ==
  \E s, u \in SessionIds :
    /\ pc[s] = "t_done" /\ status[s] = "COMPLETED"
    /\ pc[u] = "t_done" /\ status[u] = "FAILED"

\* --------------------------------------------- constructions do not block
\* C27: a task that constructs library A holds A's init mutex and nothing
\* else: neither map lock and no other library's mutex. Another task that
\* asks for a cached library B can take its fast-path step and return, and
\* another task inside get_coordinator for a library C other than A can take
\* its next step unless C's own mutex is held by somebody else.
C27_ConstructionBlocksNobody ==
  \A p \in Procs :
    InFromLibrary(p) =>
      /\ guard[lib[p]] = p
      /\ \A L \in LibraryNames \ {lib[p]} : guard[L] # p
      /\ p \notin CoordinatorsLockHolders /\ p \notin InitLocksLockHolders
      /\ \A q \in Procs \ {p} :
           lib[q] # lib[p] =>
             /\ (pc[q] = "gc_fast" /\ coordinators[lib[q]] # NoCoord) =>
                  ENABLED (GetCoordinator(q) /\ pc'[q] = AfterGetOk(q))
             /\ (pc[q] \in InGetCoordinator
                   /\ (pc[q] = "gc_lock" => guard[lib[q]] = NoProc)) =>
                  ENABLED GetCoordinator(q)

\* libA and a.b are under construction at the same time while libB is cached
C27_Witness ==
  /\ coordinators["libB"] # NoCoord
  /\ \E p, q \in Procs :
       /\ lib[p] = "libA" /\ pc[p] = "fl_initialize"
       /\ lib[q] = "a.b" /\ pc[q] = "fl_initialize"

\* ------------------------------------------------------- what shutdown_all does
\* C28: shutdown_all leaves the pool map empty, and it calls
\* shutdown_workers on exactly the coordinators it removed whose only
\* reference was the pool's; a removed coordinator that a task still holds
\* gets no shutdown signal.
C28_Step ==
  shutdowns' # shutdowns =>
    /\ pool_size' = 0
    /\ \A k \in CoordIds :
         (k \in shut' /\ k \notin shut) <=>
            ((\E L \in LibraryNames : coordinators[L] = k) /\ RefCount(k) = 1)

Abandoned(k) == Drained(k) /\ k \notin shut /\ RefCount(k) = 0

\* C29: a coordinator that shutdown_all removed from the pool without
\* shutting it down is, once the last outside reference is dropped,
\* eventually fully released: its decay worker and its cognitive workers
\* have stopped and its database handle is closed.
C29_EventuallyReleased ==
  \A k \in CoordIds :
     Abandoned(k) ~> ((\A w \in WorkerIds : <<k, w>> \notin workers) /\ ~DbOpen(k))

\* --------------------------------------------- the cleanup task and shutdown
\* the process was told to stop: the operator's token or shutdown_all
ShutdownSignalled == cancelled \/ shutdowns > 0

\* C30: after a global shutdown is signalled the cleanup task started by
\* start_cleanup_task eventually exits: from some point on it runs no
\* further pass of its 60 s loop.
C30_CleanupTaskExits == ShutdownSignalled ~> [](gcpc = "idle")

\* ------------------------------------------------- the final stage name
\* C31: the final stage name of every session is "Completed" when the
\* session completed and "Failed" when it failed.
C31_FinalStageNamesStatus ==
  \A s \in SessionIds :
     (role[s] = "memorize" /\ pc[s] = "t_done") =>
        /\ status[s] = "COMPLETED" => stage[s] = "Completed"
        /\ status[s] = "FAILED" => stage[s] = "Failed"

\* ------------------------------------------- a graph that fails to load
\* C32: if loading the entanglement edges fails while a coordinator is
\* constructed, construction still succeeds, with an empty graph (boost 0 for
\* every candidate), and the failure is not returned to the caller.
C32_Step ==
  \A p \in Procs :
     (pc[p] = "fl_edges" /\ pc'[p] # "fl_edges") =>
        /\ pc'[p] = "gc_insert"
        /\ held'[p] \in CoordIds
        /\ err'[p] = err[p] /\ fails' = fails
        /\ lib[p] \in entangled.fault =>
             /\ quantum_state'[held'[p]] = {}
             /\ \A c \in MemoryIds, C \in SUBSET MemoryIds :
                  BoostOf(quantum_state'[held'[p]], c, C) = 0

C32_LoadFailureDegrades == [][C32_Step]_vars

\* a recall returned without error from a coordinator whose library has
\* stored edges that could not be loaded
C32_Witness ==
  \E p \in Procs :
     /\ pc[p] = "rc_done" /\ err[p] = "" /\ got[p] # NoCoord
     /\ lib[p] \in entangled.fault
     /\ entangled.edges[lib[p]] # {}
     /\ quantum_state[got[p]] = {}
     /\ \E q \in Procs : got[q] # NoCoord /\ quantum_state[got[q]] # {}

\* ------------------------------------------------- migrations on open
\* C33: when from_library has returned a coordinator for a library, every
\* built-in migration above the version its database had was applied: none
\* is pending.
C33_MigratedOnOpen ==
  \A k \in CoordIds :
     coordDb[k] # NoLibrary => PendingMigrations(schema_version[coordDb[k]]) = {}

\* ------------------------------------------- consumers of the cognitive queue
\* the running workers that were given coordinator k's cognitive queue
QueueConsumers(k) == {w \in WorkerIds \ {"decay"} : <<k, w>> \in workers}

\* C34: the cognitive queue of each coordinator is drained by exactly one
\* worker task; no two workers consume from the same queue.
C34_SingleQueueConsumer ==
  \A k \in CoordIds :
     coordDb[k] # NoLibrary => Cardinality(QueueConsumers(k)) = 1

\* ------------------------------------------------- scores of a batch
\* the scores, in hundredths, of the numeric array each response of the model
\* carries (the first one, where it carries two); NoArray where the response
\* carries none
NoArray == <<-1>>

Denotes(response) ==
  CASE response \in {"[0.8, 0.6]", "Scores: [0.8, 0.6] as requested"} -> <<80, 60>>
    [] response = "[0.8]" -> <<80>>
    [] response = "[1, 0]" -> <<100, 0>>
    [] response = "[0.8, 1.5]" -> <<80, 150>>
    [] response = "[0.8, 0.6, 0.9]" -> <<80, 60, 90>>
    [] response = "[ ]" -> <<>>
    [] response = "[0.80 ,  0.05]" -> <<80, 5>>
    [] response = "[2]" -> <<200>>
    [] response = "[1] then [0.8, 0.6]" -> <<100>>
    [] response = "[0.8, 0.6] or [7]" -> <<80, 60>>
    [] OTHER -> NoArray

InRange(score) == score >= 0 /\ score <= 100

\* C35: evaluate_batch on N memories returns an error or exactly N
\* (memory id, score) pairs, ids in input order, scores in [0,1] and equal to
\* the scores of the response; a response with no numeric array, with an
\* array of another length than N or with a score outside [0,1] makes the
\* whole batch an error, and an error carries no scores.
C35_BatchAllOrNothing ==
  batch # NoBatch =>
    LET ms == batch.memories
        array == Denotes(batch.response)
        bad == \/ array = NoArray
               \/ Len(array) # Len(ms)
               \/ \E i \in 1..Len(array) : ~InRange(array[i])
    IN /\ scored.ok =>
            /\ Len(scored.pairs) = Len(ms)
            /\ \A i \in 1..Len(ms) :
                 /\ scored.pairs[i][1] = ms[i]
                 /\ InRange(scored.pairs[i][2])
                 /\ scored.pairs[i][2] = array[i]
       /\ ~scored.ok => scored.pairs = <<>> /\ scored.error # ""
       /\ bad <=> ~scored.ok

\* a batch of three was scored from a three-element array, and (in another
\* call) a batch was refused
C35_Witness ==
  /\ scored.ok
  /\ Len(batch.memories) = MaxBatch
  /\ scored.pairs = <<<<batch.memories[1], 80>>, <<batch.memories[2], 60>>,
                      <<batch.memories[3], 90>>>>

\* ------------------------------------------------- every call returns
\* C36: in every interleaving of get_coordinator calls, for the same or for
\* different libraries, with shutdown_all, each get_coordinator call
\* returns: none waits forever on the pool map lock, the init-lock map lock
\* or an init mutex.
C36_EveryCallReturns ==
  \A p \in Procs : (pc[p] \in InGetCoordinator) ~> (pc[p] \notin InGetCoordinator)

\* two calls for one library have returned, one before shutdown_all and one
\* after it, and a third call had to build another library meanwhile
C36_Witness ==
  \E p, q, r \in Procs :
     /\ lib[p] = lib[q] /\ lib[r] # lib[p]
     /\ got[p] # NoCoord /\ got[q] # NoCoord /\ got[r] # NoCoord
     /\ retEpoch[p] = 0 /\ retEpoch[q] = 1
     /\ got[p] # got[q]

\* ------------------------------------------- one coordinator per library
\* coordinator k is live: it was built, somebody still owns it, and
\* shutdown_workers was not called on it
Live(k) == coordDb[k] # NoLibrary /\ k \notin shut /\ RefCount(k) > 0

\* C37: at any time at most one live MemoryCoordinator exists for a library
\* name, whatever the interleaving of get_coordinator, shutdown_all and the
\* tasks that still hold a coordinator.
C37_OneLiveCoordinatorPerLibrary ==
  \A L \in Libraries :
     Cardinality({k \in CoordIds : coordDb[k] = L /\ Live(k)}) <= 1

\* ------------------------------------------------- the terminal fields
\* C38: in every state of a session memory_id is set only if the status is
\* COMPLETED and error only if it is FAILED, the two are never both set, and
\* neither is cleared or changed once it is set.
C38_Inv ==
  \A s \in SessionIds :
     /\ memory_id[s] # NoMemory => status[s] = "COMPLETED"
     /\ error[s] # "" => status[s] = "FAILED"
     /\ ~(memory_id[s] # NoMemory /\ error[s] # "")

C38_Step ==
  \A s \in SessionIds :
     /\ memory_id[s] # NoMemory => memory_id'[s] = memory_id[s]
     /\ error[s] # "" => error'[s] = error[s]

C38_TerminalFields == [](C38_Inv) /\ [][C38_Step]_vars

\* one session completed and has its memory id, another failed and has its
\* error
C38_Witness ==
  \E s, u \in SessionIds :
     /\ status[s] = "COMPLETED" /\ memory_id[s] # NoMemory /\ error[s] = ""
     /\ status[u] = "FAILED" /\ error[u] # "" /\ memory_id[u] = NoMemory

\* ------------------------------------------- content that fails to load
\* session s was started on an input whose content cannot be loaded
LoadFails(s) == role[s] = "memorize" /\ ~ResolveContent(content_input[s]).ok

\* C39: a memorize session whose content fails to load ends FAILED without
\* calling get_coordinator: no step of it changes the pool (no coordinator
\* cached, no database file created), and it never holds a coordinator.
C39_Inv ==
  \A s \in SessionIds :
     LoadFails(s) =>
        /\ pc[s] \notin InGetCoordinator
        /\ held[s] = NoCoord /\ got[s] = NoCoord
        /\ pc[s] = "t_done" =>
             /\ status[s] = "FAILED"
             /\ StartsWith(error[s], "Failed to load content: ")

C39_Step ==
  \A s \in SessionIds :
     (LoadFails(s) /\ pc'[s] # pc[s]) => poolVars' = poolVars

C39_LoadFailureLeavesPool == [](C39_Inv) /\ [][C39_Step]_vars

\* a session ended FAILED on its content while the pool holds the
\* coordinator another session built
C39_Witness ==
  \E s, u \in SessionIds :
     /\ LoadFails(s) /\ pc[s] = "t_done" /\ status[s] = "FAILED"
     /\ status[u] = "COMPLETED" /\ coordinators[lib[s]] # NoCoord
     /\ lib[s] \in dbFiles

=============================================================================
